---- MODULE Spec2Model ----
(***************************************************************************)
(* Model of the record reconciliation core of Rosetta:                     *)
(*   scripts/aggregate_json.py      (dedupe_key, records_from_data, main)  *)
(*   scripts/aggregate_metadata.py  (record_key, load_existing, main)      *)
(*   scripts/metadata_to_csv.py     (read_users_index,                     *)
(*                                   find_user_email_for_record)           *)
(*                                                                         *)
(* JSON values are records [t, s, d, l]: t is the JSON type, s the text of *)
(* a string or number, d the (name, value) pairs of an object in insertion *)
(* order (a Python dict), l the items of an array.  A file's content is a  *)
(* JSON value, or t = "missing" (no such file) or t = "bad" (a file that   *)
(* json.load rejects).                                                     *)
(***************************************************************************)
EXTENDS Integers, Naturals, Sequences, FiniteSets, TLC

VARIABLES
    store,      \* content of the output file (--out)
    pc,         \* pc[p]: where process p stands in main()
    scan,       \* scan[p]: the input files process p's run globs, in glob order
    before,     \* before[p]: content of the output file when p's run began
    prev,       \* prev[p]: what p read from the output file (aggregate_json.py:99)
    existing,   \* existing[p]: dict built from the previous store (line 97)
    merged,     \* merged[p]: dict being upserted (line 106)
    rerun,      \* rerun[p]: this run repeats the previous run's inputs
    runs,       \* number of runs started
    cumulative, \* aggregate_metadata.main: cumulative[p] (line 78)
    seen,       \* aggregate_metadata.main: seen[p] (line 79)
    item,       \* key probe: the record handed to the keying functions
    kjson,      \* key probe: result of aggregate_json.dedupe_key
    kmeta,      \* key probe: result of aggregate_metadata.record_key
    arg,        \* function probe: the arguments handed to the function under study
    res         \* function probe: what the function returned

vars == <<store, pc, scan, before, prev, existing, merged, rerun, runs,
          cumulative, seen, item, kjson, kmeta, arg, res>>

(***************************************************************************)
(* Bounds                                                                  *)
(***************************************************************************)
MaxRuns == 2
MaxFiles == 2
MaxFields == 2

(***************************************************************************)
(* JSON values                                                             *)
(***************************************************************************)
Null == [t |-> "null", s |-> "", d |-> <<>>, l |-> <<>>]
Str(x) == [t |-> "str", s |-> x, d |-> <<>>, l |-> <<>>]
Num(x) == [t |-> "num", s |-> x, d |-> <<>>, l |-> <<>>]
Obj(pairs) == [t |-> "obj", s |-> "", d |-> pairs, l |-> <<>>]
List(items) == [t |-> "list", s |-> "", d |-> <<>>, l |-> items]
Missing == [t |-> "missing", s |-> "", d |-> <<>>, l |-> <<>>]
Bad == [t |-> "bad", s |-> "", d |-> <<>>, l |-> <<>>]

\* A string holding a lone surrogate: json.load accepts the escape, UTF-8
\* encoding rejects the character.
Surrogate == "\\ud800"

IsDict(v) == v.t = "obj"
IsList(v) == v.t = "list"

(***************************************************************************)
(* Python dict operations on insertion-ordered pair sequences              *)
(***************************************************************************)
Has(d, k) == \E i \in 1..Len(d) : d[i][1] = k

Get(d, k) ==
    IF Has(d, k) THEN d[CHOOSE i \in 1..Len(d) : d[i][1] = k][2] ELSE Null

DictSet(d, k, v) ==
    IF Has(d, k)
    THEN [i \in 1..Len(d) |-> IF d[i][1] = k THEN <<k, v>> ELSE d[i]]
    ELSE Append(d, <<k, v>>)

SetDefault(d, k, v) == IF Has(d, k) THEN d ELSE Append(d, <<k, v>>)

Values(d) == [i \in 1..Len(d) |-> d[i][2]]

Keys(d) == {d[i][1] : i \in 1..Len(d)}

(***************************************************************************)
(* Text conversions                                                        *)
(***************************************************************************)
\* str(v) as the f-string "{k}:{v}" formats a scalar
PyStr(v) == IF v.t = "null" THEN "None" ELSE v.s

\* Field names of the model's records, in lexicographic order (sort_keys)
SortedNames ==
    <<"_raw", "filename", "id", "source", "source_path", "uuid", "v", "w">>

RECURSIVE json_dumps(_), DumpPairs(_, _, _), DumpItems(_, _), DumpUnsorted(_, _)
\* json.dumps without sort_keys: the pairs in insertion order
DumpUnsorted(d, i) ==
    IF i > Len(d) THEN ""
    ELSE (IF i = 1 THEN "" ELSE ", ")
         \o "\"" \o d[i][1] \o "\": " \o json_dumps(d[i][2])
         \o DumpUnsorted(d, i + 1)

json_dumps_unsorted(v) ==
    IF v.t = "obj" THEN "{" \o DumpUnsorted(v.d, 1) \o "}" ELSE json_dumps(v)

\* The canonical payload of the hash fallback (aggregate_json.py:68)
Payload(it) == json_dumps(it)

json_dumps(v) ==
    CASE v.t = "null" -> "null"
      [] v.t = "num" -> v.s
      [] v.t = "str" -> "\"" \o v.s \o "\""
      [] v.t = "obj" -> "{" \o DumpPairs(v.d, 1, TRUE) \o "}"
      [] OTHER -> "[" \o DumpItems(v.l, 1) \o "]"

DumpItems(l, i) ==
    IF i > Len(l) THEN ""
    ELSE (IF i = 1 THEN "" ELSE ", ") \o json_dumps(l[i]) \o DumpItems(l, i + 1)

DumpPairs(d, i, first) ==
    IF i > Len(SortedNames) THEN ""
    ELSE IF Has(d, SortedNames[i])
         THEN (IF first THEN "" ELSE ", ")
              \o "\"" \o SortedNames[i] \o "\": "
              \o json_dumps(Get(d, SortedNames[i]))
              \o DumpPairs(d, i + 1, FALSE)
         ELSE DumpPairs(d, i + 1, first)

\* hashlib.sha256(payload).hexdigest(): one digest per payload
Sha256(payload) == "sha256<" \o payload \o ">"

(***************************************************************************)
(* Record keying                                                           *)
(***************************************************************************)
PRIORITY_KEYS == <<"id", "uuid", "source", "source_path", "filename">>

RECURSIVE DedupeScan(_, _), UuidFirstScan(_, _)
\* A keying that looks at uuid before id
UuidFirstScan(it, i) ==
    LET order == <<"uuid", "id", "source", "source_path", "filename">>
    IN  IF i > Len(order)
        THEN Sha256(Payload(it))
        ELSE IF Get(it.d, order[i]) # Null
             THEN order[i] \o ":" \o PyStr(Get(it.d, order[i]))
             ELSE UuidFirstScan(it, i + 1)

dedupe_key_uuid_first(it) == UuidFirstScan(it, 1)

DedupeScan(it, i) ==
    IF i > Len(PRIORITY_KEYS)
    THEN Sha256(Payload(it))
    ELSE LET k == PRIORITY_KEYS[i]
             v == Get(it.d, k)
         IN  IF v # Null THEN k \o ":" \o PyStr(v) ELSE DedupeScan(it, i + 1)

\* aggregate_json.dedupe_key
dedupe_key(it) == DedupeScan(it, 1)

RECURSIVE RecordScan(_, _)
RecordScan(it, i) ==
    IF i > Len(PRIORITY_KEYS)
    THEN Sha256(json_dumps(it))
    ELSE LET k == PRIORITY_KEYS[i]
             v == Get(it.d, k)
         IN  IF v \notin {Null, Str("")} THEN k \o ":" \o PyStr(v)
             ELSE RecordScan(it, i + 1)

\* aggregate_metadata.record_key
record_key(it) == RecordScan(it, 1)

(***************************************************************************)
(* Key probe: the keying functions applied to one record                   *)
(***************************************************************************)
ProbeNames == {"id", "uuid", "source", "source_path", "filename", "v", "w"}
ProbeValues == {Null, Str(""), Str("a"), Str("1"), Num("1")}

NoKey == "<none>"

\* The probe record grows by one field: every dict of at most MaxFields
\* fields, in every insertion order, is handed to the keying functions
ProbeField ==
    /\ kjson = NoKey
    /\ kmeta = NoKey
    /\ Len(item.d) < MaxFields
    /\ \E k \in ProbeNames, v \in ProbeValues :
        /\ ~Has(item.d, k)
        /\ item' = Obj(Append(item.d, <<k, v>>))
    /\ UNCHANGED <<arg, res>>
    /\ UNCHANGED <<store, pc, scan, before, prev, existing, merged, rerun, runs,
                   cumulative, seen, kjson, kmeta>>

ProbeJson ==
    /\ kjson = NoKey
    /\ kjson' = dedupe_key(item)
    /\ UNCHANGED <<arg, res>>
    /\ UNCHANGED <<store, pc, scan, before, prev, existing, merged, rerun, runs,
                   cumulative, seen, item, kmeta>>

ProbeMeta ==
    /\ kmeta = NoKey
    /\ kmeta' = record_key(item)
    /\ UNCHANGED <<arg, res>>
    /\ UNCHANGED <<store, pc, scan, before, prev, existing, merged, rerun, runs,
                   cumulative, seen, item, kjson>>

Procs == {1, 2}

\* No function is being probed
NoCall ==
    /\ arg = <<>>
    /\ res = <<>>

Idle ==
    /\ pc = [p \in Procs |-> "idle"]
    /\ scan = [p \in Procs |-> <<>>]
    /\ before = [p \in Procs |-> Missing]
    /\ prev = [p \in Procs |-> Null]
    /\ existing = [p \in Procs |-> <<>>]
    /\ merged = [p \in Procs |-> <<>>]
    /\ rerun = [p \in Procs |-> FALSE]
    /\ runs = 0
    /\ cumulative = [p \in Procs |-> <<>>]
    /\ seen = [p \in Procs |-> {}]

InitKey ==
    /\ Idle
    /\ store = Missing
    /\ item = Obj(<<>>)
    /\ kjson = NoKey
    /\ kmeta = NoKey
    /\ NoCall

NextKey == ProbeField \/ ProbeJson \/ ProbeMeta

SpecKey == InitKey /\ [][NextKey]_vars

(***************************************************************************)
(* aggregate_json.py                                                       *)
(***************************************************************************)
OutPath == "data/metadata.json"

\* A loader that hands on whatever the file held
load_json_raw(content) == content

\* load_json_safely: None for a file that is missing, unreadable or not JSON
load_json_safely(content) ==
    IF content.t \in {"missing", "bad"} THEN Null ELSE content

\* records_from_data keeping the objects only
records_dicts_only(data, source_path) ==
    IF data = Null THEN <<>>
    ELSE LET items == SelectSeq(IF IsList(data) THEN data.l ELSE <<data>>, IsDict)
         IN  [i \in 1..Len(items) |->
                Obj(SetDefault(items[i].d, "source_path", Str(source_path)))]

\* records_from_data(data, source_path)
records_from_data(data, source_path) ==
    IF data = Null THEN <<>>
    ELSE LET items == IF IsList(data) THEN data.l ELSE <<data>>
         IN  [i \in 1..Len(items) |->
                LET it == IF IsDict(items[i]) THEN items[i]
                          ELSE Obj(<<<<"_raw", items[i]>>>>)
                IN  Obj(SetDefault(it.d, "source_path", Str(source_path)))]

\* iter_json_files: the globbed files without the output file itself
iter_json_files(globbed, out) ==
    SelectSeq(globbed, LAMBDA f : f.path # out)

\* merged[key] = rec, keeping the first record of a key (setdefault)
KeepFirst(m, k, rec) == SetDefault(m, k, rec)

\* merged[key] = rec that moves a replaced key to the end
MoveToEnd(m, k, rec) ==
    Append(SelectSeq(m, LAMBDA e : e[1] # k), <<k, rec>>)

\* merged[key] = rec as a list append
AlwaysAppend(m, k, rec) == Append(m, <<k, rec>>)

\* merged[dedupe_key(rec)] = rec  (line 110; line 103 for the previous store)
Upsert(m, k, rec) == DictSet(m, k, rec)

RECURSIVE UpsertAll(_, _, _)
UpsertAll(m, recs, i) ==
    IF i > Len(recs) THEN m
    ELSE UpsertAll(Upsert(m, dedupe_key(recs[i]), recs[i]), recs, i + 1)

\* The previous store is not read
ExistingForgotten(p) == <<>>

\* The previous store kept as it is, one entry per item
ExistingUnkeyed(p) ==
    IF IsList(p)
    THEN LET dicts == SelectSeq(p.l, IsDict)
         IN  [i \in 1..Len(dicts) |-> <<dedupe_key(dicts[i]), dicts[i]>>]
    ELSE <<>>

\* Lines 100-103: the dict built from the previous store
ExistingFrom(p) ==
    IF IsList(p) THEN UpsertAll(<<>>, SelectSeq(p.l, IsDict), 1) ELSE <<>>

\* The records of all files of a scan, in order (lines 107-109)
RECURSIVE RecordsOf(_, _)
RecordsOf(files, i) ==
    IF i > Len(files) THEN <<>>
    ELSE records_from_data(load_json_safely(files[i].data), files[i].path)
         \o RecordsOf(files, i + 1)

\* A merge that starts from nothing instead of dict(existing)
MergeFromScratch(ex, recs) == UpsertAll(<<>>, recs, 1)

\* Lines 106-110: copy existing, upsert every incoming record
MergeInto(ex, recs) == UpsertAll(ex, recs, 1)

\* What the glob of the roots yields: the output file lies under the default
\* root, so it is found whenever it exists
Globbed(p) ==
    IF store.t = "missing" THEN scan[p]
    ELSE <<[path |-> OutPath, data |-> store]>> \o scan[p]

\* A record json.dump cannot write to the UTF-8 file (ensure_ascii=False)
Unencodable(rec) == \E i \in 1..Len(rec.d) : rec.d[i][2] = Str(Surrogate)

\* A lock on the store file held by a run from its load to its write
WaitForLock(p) ==
    \A q \in Procs \ {p} : pc[q] \notin {"loaded", "collected", "opened"}

\* Lines 96-99: the store file is read without taking any lock
MayLoad(p) == TRUE

PathNames == <<"data/a.json", "data/b.json", "data/c.json">>

RecA1 == Obj(<<<<"id", Str("x")>>, <<"v", Str("1")>>>>)
RecA2 == Obj(<<<<"id", Str("x")>>, <<"v", Str("2")>>>>)
RecV == Obj(<<<<"v", Str("1")>>>>)
RecBadChar == Obj(<<<<"id", Str(Surrogate)>>>>)
RecOldA1 == Obj(RecA1.d \o <<<<"source_path", Str("data/old.json")>>>>)
RecOldA2 == Obj(RecA2.d \o <<<<"source_path", Str("data/old.json")>>>>)
RecOldU == Obj(<<<<"uuid", Str("u")>>, <<"source_path", Str("data/old.json")>>>>)

\* What an input file may hold
FileData == {Bad, RecA2, List(<<RecV, Str("s")>>), RecBadChar}

\* What the output file may hold before the first run
InitialStores ==
    {Missing, Bad, RecOldA1, List(<<>>), List(<<RecOldA1>>),
     List(<<RecOldA1, RecOldA2>>), List(<<RecOldU, Str("s")>>)}

\* Every glob result over the first n input paths: each path holds a file or
\* not, listed in the order of PathNames.  The code never compares two input
\* paths, so another glob order is a renaming of the paths.
RECURSIVE ScansOver(_)
ScansOver(n) ==
    IF n = 0 THEN {<<>>}
    ELSE ScansOver(n - 1) \cup
         {Append(s, [path |-> PathNames[n], data |-> c]) :
            s \in ScansOver(n - 1), c \in FileData}

Scans == ScansOver(MaxFiles)

\* Lines 72-94: a run begins
Start(p) ==
    /\ pc[p] \in {"idle", "done", "failed"}
    /\ runs < MaxRuns
    /\ \E s \in Scans :
        /\ scan' = [scan EXCEPT ![p] = s]
        /\ rerun' = [rerun EXCEPT ![p] = (pc[p] = "done" /\ s = scan[p])]
    /\ runs' = runs + 1
    /\ before' = [before EXCEPT ![p] = store]
    /\ prev' = [prev EXCEPT ![p] = Null]
    /\ existing' = [existing EXCEPT ![p] = <<>>]
    /\ merged' = [merged EXCEPT ![p] = <<>>]
    /\ cumulative' = [cumulative EXCEPT ![p] = <<>>]
    /\ seen' = [seen EXCEPT ![p] = {}]
    /\ pc' = [pc EXCEPT ![p] = "start"]
    /\ UNCHANGED <<arg, res>>
    /\ UNCHANGED <<store, item, kjson, kmeta>>

\* A single run of a process, over one of the scans of a smaller directory
StartOnce(p) ==
    /\ pc[p] = "idle"
    /\ \E s \in ScansOver(MaxFiles - 1) : scan' = [scan EXCEPT ![p] = s]
    /\ before' = [before EXCEPT ![p] = store]
    /\ pc' = [pc EXCEPT ![p] = "start"]
    /\ UNCHANGED <<arg, res>>
    /\ UNCHANGED <<store, prev, existing, merged, rerun, runs, cumulative, seen,
                   item, kjson, kmeta>>

\* Lines 96-103
LoadExisting(p) ==
    /\ pc[p] = "start"
    /\ MayLoad(p)
    /\ prev' = [prev EXCEPT ![p] = load_json_safely(store)]
    /\ existing' = [existing EXCEPT ![p] = ExistingFrom(load_json_safely(store))]
    /\ pc' = [pc EXCEPT ![p] = "loaded"]
    /\ UNCHANGED <<arg, res>>
    /\ UNCHANGED <<store, scan, before, merged, rerun, runs, cumulative, seen,
                   item, kjson, kmeta>>

\* Lines 105-110
Collect(p) ==
    /\ pc[p] = "loaded"
    /\ merged' = [merged EXCEPT ![p] =
                    MergeInto(existing[p],
                              RecordsOf(iter_json_files(Globbed(p), OutPath), 1))]
    /\ pc' = [pc EXCEPT ![p] = "collected"]
    /\ UNCHANGED <<arg, res>>
    /\ UNCHANGED <<store, scan, before, prev, existing, rerun, runs, cumulative,
                   seen, item, kjson, kmeta>>

\* Line 113: open(out, "w") truncates the file
OpenOut(p) ==
    /\ pc[p] = "collected"
    /\ store' = Bad
    /\ pc' = [pc EXCEPT ![p] = "opened"]
    /\ UNCHANGED <<arg, res>>
    /\ UNCHANGED <<scan, before, prev, existing, merged, rerun, runs, cumulative,
                   seen, item, kjson, kmeta>>

\* Line 114: json.dump writes the array, or raises part-way
Dump(p) ==
    /\ pc[p] = "opened"
    /\ IF \E i \in 1..Len(merged[p]) : Unencodable(merged[p][i][2])
       THEN /\ store' = Bad
            /\ pc' = [pc EXCEPT ![p] = "failed"]
            /\ prev' = [prev EXCEPT ![p] = Null]
            /\ existing' = [existing EXCEPT ![p] = <<>>]
            /\ merged' = [merged EXCEPT ![p] = <<>>]
       ELSE /\ store' = List(Values(merged[p]))
            /\ pc' = [pc EXCEPT ![p] = "done"]
            /\ UNCHANGED <<prev, existing, merged>>
    /\ UNCHANGED <<arg, res>>
    /\ UNCHANGED <<scan, before, rerun, runs, cumulative, seen, item, kjson,
                   kmeta>>

\* The run dies where it stands (an I/O error, a signal): the process and
\* its memory are gone, the files stay as they are
Fail(p) ==
    /\ pc[p] \in {"start", "loaded", "collected", "opened",
                  "mloaded", "mcollected", "mopened"}
    /\ pc' = [pc EXCEPT ![p] = "failed"]
    /\ prev' = [prev EXCEPT ![p] = Null]
    /\ existing' = [existing EXCEPT ![p] = <<>>]
    /\ merged' = [merged EXCEPT ![p] = <<>>]
    /\ cumulative' = [cumulative EXCEPT ![p] = <<>>]
    /\ seen' = [seen EXCEPT ![p] = {}]
    /\ UNCHANGED <<arg, res>>
    /\ UNCHANGED <<store, scan, before, rerun, runs, item, kjson, kmeta>>

Run(p) ==
    \/ Start(p)
    \/ LoadExisting(p)
    \/ Collect(p)
    \/ OpenOut(p)
    \/ Dump(p)
    \/ Fail(p)

NoProbe ==
    /\ item = Obj(<<>>)
    /\ kjson = NoKey
    /\ kmeta = NoKey

Init ==
    /\ Idle
    /\ NoProbe
    /\ NoCall
    /\ store \in InitialStores

\* One process: runs of aggregate_json.py one after the other
Next == Run(1)

Spec == Init /\ [][Next]_vars

\* Two processes on the same output file
NextRace ==
    \E p \in Procs :
        \/ StartOnce(p)
        \/ LoadExisting(p)
        \/ Collect(p)
        \/ OpenOut(p)
        \/ Dump(p)
        \/ Fail(p)

SpecRace == Init /\ [][NextRace]_vars

(***************************************************************************)
(* aggregate_metadata.py                                                   *)
(***************************************************************************)
\* load_existing(out_path): a missing or unparsable file is [], an array is
\* itself, any other JSON value is wrapped in a one-element list
load_existing(content) ==
    IF content.t \in {"missing", "bad"} THEN <<>>
    ELSE IF IsList(content) THEN content.l
    ELSE <<content>>

FileNames == <<"a.json", "b.json", "c.json">>

\* Path.name
BaseName(path) ==
    IF path = OutPath THEN "metadata.json"
    ELSE FileNames[CHOOSE i \in 1..Len(PathNames) : PathNames[i] = path]

\* iter_parsed_json: every *.json under parsed_dir not named metadata.json
iter_parsed_json(globbed) ==
    SelectSeq(globbed, LAMBDA f : BaseName(f.path) # "metadata.json")

\* load_items_from_file(path)
load_items_from_file(content, path) ==
    IF content.t \in {"missing", "bad"} THEN <<>>
    ELSE IF IsList(content)
    THEN [i \in 1..Len(content.l) |->
            IF IsDict(content.l[i]) THEN content.l[i]
            ELSE Obj(<<<<"_raw", content.l[i]>>, <<"source_path", Str(path)>>>>)]
    ELSE IF IsDict(content) THEN <<content>>
    ELSE <<Obj(<<<<"_raw", content>>, <<"source_path", Str(path)>>>>)>>

RECURSIVE ItemsOf(_, _)
ItemsOf(files, i) ==
    IF i > Len(files) THEN <<>>
    ELSE load_items_from_file(files[i].data, files[i].path) \o ItemsOf(files, i + 1)

\* Lines 83-91: append every item whose key was not seen yet
RECURSIVE AppendNew(_, _, _, _)
AppendNew(cum, sn, items, i) ==
    IF i > Len(items) THEN [cumulative |-> cum, seen |-> sn]
    ELSE LET k == record_key(items[i])
         IN  IF k \in sn THEN AppendNew(cum, sn, items, i + 1)
             ELSE AppendNew(Append(cum, items[i]), sn \cup {k}, items, i + 1)

\* Lines 78-79: load the cumulative store and key it; record_key raises
\* AttributeError on an item that is no dict
MLoad(p) ==
    /\ pc[p] = "start"
    /\ LET cum == load_existing(store)
       IN  IF \E i \in 1..Len(cum) : ~IsDict(cum[i])
           THEN /\ pc' = [pc EXCEPT ![p] = "failed"]
                /\ UNCHANGED <<cumulative, seen>>
           ELSE /\ cumulative' = [cumulative EXCEPT ![p] = cum]
                /\ seen' = [seen EXCEPT ![p] =
                              {record_key(cum[i]) : i \in 1..Len(cum)}]
                /\ pc' = [pc EXCEPT ![p] = "mloaded"]
    /\ UNCHANGED <<arg, res>>
    /\ UNCHANGED <<store, scan, before, prev, existing, merged, rerun, runs,
                   item, kjson, kmeta>>

\* Lines 82-91
MCollect(p) ==
    /\ pc[p] = "mloaded"
    /\ LET r == AppendNew(cumulative[p], seen[p],
                          ItemsOf(iter_parsed_json(scan[p]), 1), 1)
       IN  /\ cumulative' = [cumulative EXCEPT ![p] = r.cumulative]
           /\ seen' = [seen EXCEPT ![p] = r.seen]
    /\ pc' = [pc EXCEPT ![p] = "mcollected"]
    /\ UNCHANGED <<arg, res>>
    /\ UNCHANGED <<store, scan, before, prev, existing, merged, rerun, runs,
                   item, kjson, kmeta>>

\* Line 94: out_path.open("w") truncates the file
MOpen(p) ==
    /\ pc[p] = "mcollected"
    /\ store' = Bad
    /\ pc' = [pc EXCEPT ![p] = "mopened"]
    /\ UNCHANGED <<arg, res>>
    /\ UNCHANGED <<scan, before, prev, existing, merged, rerun, runs, cumulative,
                   seen, item, kjson, kmeta>>

\* Line 95: json.dump writes the array, or raises part-way
MDump(p) ==
    /\ pc[p] = "mopened"
    /\ IF \E i \in 1..Len(cumulative[p]) : Unencodable(cumulative[p][i])
       THEN /\ store' = Bad
            /\ pc' = [pc EXCEPT ![p] = "failed"]
            /\ cumulative' = [cumulative EXCEPT ![p] = <<>>]
            /\ seen' = [seen EXCEPT ![p] = {}]
       ELSE /\ store' = List(cumulative[p])
            /\ pc' = [pc EXCEPT ![p] = "done"]
            /\ UNCHANGED <<cumulative, seen>>
    /\ UNCHANGED <<arg, res>>
    /\ UNCHANGED <<scan, before, prev, existing, merged, rerun, runs, item,
                   kjson, kmeta>>

\* One process: runs of aggregate_metadata.py one after the other
NextMeta ==
    \/ Start(1)
    \/ MLoad(1)
    \/ MCollect(1)
    \/ MOpen(1)
    \/ MDump(1)
    \/ Fail(1)

SpecMeta == Init /\ [][NextMeta]_vars

(***************************************************************************)
(* Properties of the merge (checked under Spec, SpecRace, SpecMeta)        *)
(***************************************************************************)
\* The records of a store array: its JSON objects
DictItems(v) == IF IsList(v) THEN SelectSeq(v.l, IsDict) ELSE <<>>

ItemSet(l) == {l[i] : i \in 1..Len(l)}

KeySet(l) == {dedupe_key(l[i]) : i \in 1..Len(l)}

\* The records a run ingests, in ingestion order
Incoming(p) == RecordsOf(scan[p], 1)

WithPath(rec, path) == Obj(rec.d \o <<<<"source_path", Str(path)>>>>)

\* C1: after a completed run of aggregate_json.main the written store is an
\* array of records no two of which have the same dedup key.
C1_StoreKeysUnique ==
    \A p \in Procs :
        pc[p] = "done" =>
            /\ IsList(store)
            /\ \A i \in 1..Len(store.l) : IsDict(store.l[i])
            /\ \A i, j \in 1..Len(store.l) :
                i # j => dedupe_key(store.l[i]) # dedupe_key(store.l[j])

\* A run that began from a store array with two records of one key
C1_Witness ==
    /\ pc[1] = "done"
    /\ before[1] = List(<<RecOldA1, RecOldA2>>)
    /\ Len(scan[1]) > 0
    /\ Len(store.l) >= 2

\* C2: last write wins.  For every incoming record that is the last incoming
\* one of its key, the written store holds that record and no other record of
\* the key; the store has one record per key of the loaded store and of the
\* incoming records, so a replaced key adds nothing to its size.
C2_LastWriteWins ==
    \A p \in Procs :
        pc[p] = "done" =>
            LET inc == Incoming(p)
                old == DictItems(prev[p])
            IN  /\ \A i \in 1..Len(inc) :
                    (\A j \in (i + 1)..Len(inc) :
                        dedupe_key(inc[j]) # dedupe_key(inc[i]))
                    => /\ inc[i] \in ItemSet(store.l)
                       /\ \A n \in 1..Len(store.l) :
                            dedupe_key(store.l[n]) = dedupe_key(inc[i])
                            => store.l[n] = inc[i]
                /\ Len(store.l) = Cardinality(KeySet(old) \cup KeySet(inc))

\* The stored id:x record is replaced by the incoming one, and an earlier
\* incoming record of the run is replaced by a later one
C2_Witness ==
    /\ pc[1] = "done"
    /\ before[1] = List(<<RecOldA1>>)
    /\ WithPath(RecA2, PathNames[1]) \in ItemSet(store.l)
    /\ Len(Incoming(1)) = 3
    /\ Len(store.l) = 2

\* Two store arrays hold the same keys and the same record for each key
SameStore(a, b) ==
    /\ IsList(a)
    /\ IsList(b)
    /\ {<<dedupe_key(x), x>> : x \in ItemSet(DictItems(a))}
         = {<<dedupe_key(x), x>> : x \in ItemSet(DictItems(b))}
    /\ Len(a.l) = Len(b.l)

\* C3: a run over the same incoming records as the completed run before it,
\* starting from the store that run wrote, writes the same keys and records.
C3_Idempotent ==
    \A p \in Procs :
        (pc[p] = "done" /\ rerun[p]) => SameStore(store, before[p])

C3_Witness ==
    /\ pc[1] = "done"
    /\ rerun[1]
    /\ Len(scan[1]) = 2
    /\ Len(store.l) >= 2

\* C4 as claimed: every record of the loaded store whose key no incoming
\* record has is in the merged store, and the merged keys are the union.
C4_AllExistingKept ==
    \A p \in Procs :
        pc[p] = "done" =>
            LET inc == Incoming(p)
                old == DictItems(prev[p])
            IN  /\ \A i \in 1..Len(old) :
                    dedupe_key(old[i]) \notin KeySet(inc)
                    => old[i] \in ItemSet(store.l)
                /\ KeySet(store.l) = KeySet(old) \cup KeySet(inc)

\* C4 amended: every record of the loaded store that is the last store
\* record of its key, and whose key no incoming record has, is unchanged in
\* the merged store; the merged keys are the union of both key sets.
C4_LastExistingKept ==
    \A p \in Procs :
        pc[p] = "done" =>
            LET inc == Incoming(p)
                old == DictItems(prev[p])
            IN  /\ \A i \in 1..Len(old) :
                    (/\ dedupe_key(old[i]) \notin KeySet(inc)
                     /\ \A j \in (i + 1)..Len(old) :
                            dedupe_key(old[j]) # dedupe_key(old[i]))
                    => old[i] \in ItemSet(store.l)
                /\ KeySet(store.l) = KeySet(old) \cup KeySet(inc)

\* A stored record of a key that no input has, next to newly merged records
C4_Witness ==
    /\ pc[1] = "done"
    /\ RecOldU \in ItemSet(DictItems(prev[1]))
    /\ RecOldU \in ItemSet(store.l)
    /\ Len(Incoming(1)) > 0
    /\ Len(store.l) >= 2

\* C5: a run that failed left the store file as it was before the run.
C5_FailureKeepsStore ==
    \A p \in Procs : pc[p] = "failed" => store = before[p]

\* C6: no run waits for another.  A run that has begun can load the store and
\* a run that has merged can open it for writing, whatever the other run is
\* doing; when both are done the file is the whole output of one of them.
C6_NoLock ==
    /\ \A p \in Procs :
        /\ pc[p] = "start" => ENABLED LoadExisting(p)
        /\ pc[p] = "collected" => ENABLED OpenOut(p)
    /\ (\A p \in Procs : pc[p] = "done")
        => \E p \in Procs : store = List(Values(merged[p]))

\* Both runs are done and a record the first writer merged is not in the file
C6_Witness ==
    /\ \A p \in Procs : pc[p] = "done"
    /\ store = List(Values(merged[2]))
    /\ prev[1] = prev[2]
    /\ \E i \in 1..Len(merged[1]) :
        /\ merged[1][i][2] \in ItemSet(Incoming(1))
        /\ merged[1][i][1] \notin KeySet(store.l)

\* The records aggregate_metadata.main reads from its input files
MetaIncoming(p) == ItemsOf(iter_parsed_json(scan[p]), 1)

\* C10: a store file that is missing, unparsable or not an array counts as
\* an empty store: the store written by the run of aggregate_metadata.main
\* holds exactly the records ingested in that run.
C10_UnusableStoreIsEmpty ==
    \A p \in Procs :
        (pc[p] = "done" /\ ~IsList(before[p])) =>
            /\ IsList(store)
            /\ ItemSet(store.l) \subseteq ItemSet(MetaIncoming(p))
            /\ {record_key(x) : x \in ItemSet(MetaIncoming(p))}
                 \subseteq {record_key(x) : x \in ItemSet(store.l)}

\* The same statement for aggregate_json.main, which keeps it (under Spec)
C10_JsonUnusableStoreIsEmpty ==
    \A p \in Procs :
        (pc[p] = "done" /\ ~IsList(before[p])) =>
            /\ IsList(store)
            /\ ItemSet(store.l) \subseteq ItemSet(Incoming(p))
            /\ KeySet(Incoming(p)) \subseteq KeySet(store.l)

(***************************************************************************)
(* Properties of the keying functions (checked under SpecKey)              *)
(***************************************************************************)
\* What dedupe_key takes for a usable value: anything but None (line 65)
Usable(it, k) == Get(it.d, k) # Null

\* What the store contract takes for a usable value: neither null nor ""
NonEmpty(it, k) == Get(it.d, k) \notin {Null, Str("")}

PairSet(d) == {d[i] : i \in 1..Len(d)}

\* Every dict over the fields that are no identity fields, in every order
PlainNames == {"v", "w"}

RECURSIVE PlainDictsOfLen(_)
PlainDictsOfLen(n) ==
    IF n = 0 THEN {<<>>}
    ELSE UNION {{Append(d, <<k, v>>) : k \in PlainNames \ Keys(d), v \in ProbeValues} :
                    d \in PlainDictsOfLen(n - 1)}

PlainDicts == UNION {PlainDictsOfLen(n) : n \in 0..Cardinality(PlainNames)}

NoIdentity(d) == \A i \in 1..Len(PRIORITY_KEYS) : ~Has(d, PRIORITY_KEYS[i])

\* C7: dedupe_key returns "<field>:<value>" for the first field of the order
\* id, uuid, source, source_path, filename that holds a usable value; a later
\* field is never used when an earlier one is usable.
C7_KeyPriority ==
    kjson # NoKey =>
        \A i \in 1..Len(PRIORITY_KEYS) :
            (/\ Usable(item, PRIORITY_KEYS[i])
             /\ \A j \in 1..(i - 1) : ~Usable(item, PRIORITY_KEYS[j]))
            => kjson = PRIORITY_KEYS[i] \o ":" \o PyStr(Get(item.d, PRIORITY_KEYS[i]))

\* A record holding uuid (inserted first) and id: the key is the id key
C7_Witness ==
    /\ kjson = "id:a"
    /\ Len(item.d) = 2
    /\ item.d[1][1] = "uuid"
    /\ item.d[1][2] = Str("1")

\* The key the store contract prescribes: the first field whose value is
\* neither null nor the empty string, else the content hash
ContractKey(it) ==
    IF \E i \in 1..Len(PRIORITY_KEYS) : NonEmpty(it, PRIORITY_KEYS[i])
    THEN LET i == CHOOSE n \in 1..Len(PRIORITY_KEYS) :
                    /\ NonEmpty(it, PRIORITY_KEYS[n])
                    /\ \A j \in 1..(n - 1) : ~NonEmpty(it, PRIORITY_KEYS[j])
         IN  PRIORITY_KEYS[i] \o ":" \o PyStr(Get(it.d, PRIORITY_KEYS[i]))
    ELSE Sha256(json_dumps(it))

\* C8: an identity field whose value is null or "" counts as absent, for
\* aggregate_json.dedupe_key and for aggregate_metadata.record_key alike.
C8_EmptyIsAbsent ==
    /\ kjson # NoKey => kjson = ContractKey(item)
    /\ kmeta # NoKey => kmeta = ContractKey(item)

\* The part of C8 that the code keeps: record_key skips null and "".
C8_RecordKeySkipsEmpty == kmeta # NoKey => kmeta = ContractKey(item)

\* C9: among records without identity fields, two records get the same key
\* exactly when they hold the same field/value pairs, in whatever order.
C9_HashDependsOnPairs ==
    (kjson # NoKey /\ NoIdentity(item.d)) =>
        \A d \in PlainDicts :
            (dedupe_key(Obj(d)) = kjson) <=> (PairSet(d) = PairSet(item.d))

\* A keyed record of two non-identity fields, inserted as w then v
C9_Witness ==
    /\ kjson # NoKey
    /\ NoIdentity(item.d)
    /\ Len(item.d) = 2
    /\ item.d[1][1] = "w"
    /\ item.d[2][1] = "v"

(***************************************************************************)
(* Ingestion of the input files (C11-C14)                                  *)
(***************************************************************************)
\* The files of a scan that json.load accepts
Readable(files) == SelectSeq(files, LAMBDA f : f.data.t \notin {"missing", "bad"})

\* C11: a run whose scan holds an unreadable or malformed file completes;
\* that file contributes no record (the written store holds only records of
\* the previous store and of the readable files), the records of every
\* other file are merged (each of their keys is in the store), and a record
\* of the previous store whose key no readable file brings is kept as it was.
C11_BadFileSkipped ==
    \A p \in Procs :
        (pc[p] = "done" /\ \E i \in 1..Len(scan[p]) : scan[p][i].data = Bad) =>
            LET good == Readable(scan[p])
                recs == UNION {ItemSet(records_from_data(good[i].data, good[i].path)) :
                                 i \in 1..Len(good)}
                old == ItemSet(DictItems(prev[p]))
            IN  /\ ItemSet(store.l) \subseteq (old \cup recs)
                /\ \A r \in recs : dedupe_key(r) \in KeySet(store.l)
                /\ \A r \in old :
                    dedupe_key(r) \notin {dedupe_key(x) : x \in recs} =>
                        \E x \in ItemSet(store.l) \cap old :
                            dedupe_key(x) = dedupe_key(r)

\* A completed run over a malformed file and a readable one, started from a
\* store with a record: the store holds the old record and the new one
C11_Witness ==
    /\ pc[1] = "done"
    /\ scan[1] = <<[path |-> PathNames[1], data |-> Bad],
                   [path |-> PathNames[2], data |-> RecA2]>>
    /\ prev[1] = List(<<RecOldU, Str("s")>>)
    /\ ItemSet(store.l) = {RecOldU, WithPath(RecA2, PathNames[2])}

\* The same for aggregate_metadata.main (checked under SpecMeta): a file
\* load_items_from_file cannot parse adds nothing, the items of the other
\* files are keyed into the store and the loaded store is kept whole.
C11_MetaBadFileSkipped ==
    \A p \in Procs :
        (pc[p] = "done" /\ \E i \in 1..Len(scan[p]) : scan[p][i].data = Bad) =>
            LET good == Readable(scan[p])
                recs == UNION {ItemSet(load_items_from_file(good[i].data, good[i].path)) :
                                 i \in 1..Len(good)}
                old == ItemSet(load_existing(before[p]))
            IN  /\ ItemSet(store.l) \subseteq (old \cup recs)
                /\ old \subseteq ItemSet(store.l)
                /\ \A r \in recs :
                    record_key(r) \in {record_key(x) : x \in ItemSet(store.l)}

(***************************************************************************)
(* Which files a run reads (C12).  A path is the sequence of its           *)
(* components, relative to the working directory; a tree is the sequence   *)
(* of the *.json files that exist, by absolute path, in glob order.        *)
(***************************************************************************)
MaxRoots == 2

\* os.path.abspath / Path.resolve: "." dropped, "x/.." folded
RECURSIVE NormFrom(_, _, _)
NormFrom(p, i, acc) ==
    IF i > Len(p) THEN acc
    ELSE IF p[i] = "." THEN NormFrom(p, i + 1, acc)
    ELSE IF p[i] = ".." /\ Len(acc) > 0
         THEN NormFrom(p, i + 1, SubSeq(acc, 1, Len(acc) - 1))
    ELSE NormFrom(p, i + 1, Append(acc, p[i]))

abspath(p) == NormFrom(p, 1, <<>>)

\* File f lies under directory d (both absolute)
Under(f, d) == Len(f) > Len(d) /\ SubSeq(f, 1, Len(d)) = d

\* glob.glob(os.path.join(root, "**", "*.json"), recursive=True): every
\* file under the root, spelled with the root as it was given
glob_json(root, tree) ==
    LET a == abspath(root)
        hits == SelectSeq(tree, LAMBDA f : Under(f, a))
    IN  [i \in 1..Len(hits) |-> root \o SubSeq(hits[i], Len(a) + 1, Len(hits[i]))]

\* iter_json_files comparing the paths as they are spelled
RECURSIVE IterSpelled(_, _, _, _)
IterSpelled(roots, i, out_path, tree) ==
    IF i > Len(roots) THEN <<>>
    ELSE SelectSeq(glob_json(roots[i], tree), LAMBDA q : q # out_path)
         \o IterSpelled(roots, i + 1, out_path, tree)

iter_json_spelled(roots, out_path, tree) == IterSpelled(roots, 1, out_path, tree)

\* iter_json_files(roots, out_path) on path names
RECURSIVE IterRoots(_, _, _, _)
IterRoots(roots, i, out_abs, tree) ==
    IF i > Len(roots) THEN <<>>
    ELSE SelectSeq(glob_json(roots[i], tree), LAMBDA q : abspath(q) # out_abs)
         \o IterRoots(roots, i + 1, out_abs, tree)

iter_json_paths(roots, out_path, tree) ==
    IterRoots(roots, 1, abspath(out_path), tree)

\* parsed_dir.rglob("*.json") of the resolved directory
rglob_json(dir_abs, tree) == SelectSeq(tree, LAMBDA f : Under(f, dir_abs))

\* iter_parsed_json(parsed_dir) on path names: p.name == "metadata.json"
iter_parsed_paths(parsed_dir, tree) ==
    SelectSeq(rglob_json(abspath(parsed_dir), tree),
              LAMBDA f : f[Len(f)] # "metadata.json")

AllFiles ==
    <<<<"data", "metadata.json">>, <<"data", "parsed", "a.json">>,
      <<"data", "parsed", "metadata.json">>, <<"data", "parsed", "store.json">>>>

Trees == {SelectSeq(AllFiles, LAMBDA f : f \in S) : S \in SUBSET ItemSet(AllFiles)}

\* --roots / --parsed-dir
RootChoices ==
    {<<"data">>, <<"data", "parsed">>, <<".", "data">>, <<"data", "parsed", "..">>}

\* --out
OutChoices ==
    {<<"data", "metadata.json">>, <<".", "data", "metadata.json">>,
     <<"data", "parsed", "..", "metadata.json">>,
     <<"data", "parsed", "store.json">>, <<"out.json">>}

RECURSIVE SeqsUpTo(_, _)
SeqsUpTo(S, n) ==
    IF n = 0 THEN {<<>>}
    ELSE SeqsUpTo(S, n - 1) \cup
         {Append(s, x) : s \in {t \in SeqsUpTo(S, n - 1) : Len(t) = n - 1}, x \in S}

NotCalled == [fn |-> "none", yielded |-> <<>>]

InitIter ==
    /\ Idle
    /\ NoProbe
    /\ store = Missing
    /\ arg \in [roots : SeqsUpTo(RootChoices, MaxRoots) \ {<<>>},
                out : OutChoices, tree : Trees]
    /\ res = NotCalled

\* aggregate_json.main, line 107: for path in iter_json_files(args.roots, out)
IterJson ==
    /\ res = NotCalled
    /\ res' = [fn |-> "iter_json_files",
               yielded |-> iter_json_paths(arg.roots, arg.out, arg.tree)]
    /\ UNCHANGED <<arg, store, pc, scan, before, prev, existing, merged, rerun,
                   runs, cumulative, seen, item, kjson, kmeta>>

\* aggregate_metadata.main, line 82: for jf in iter_parsed_json(parsed_dir);
\* --parsed-dir is the first root
IterParsed ==
    /\ res = NotCalled
    /\ res' = [fn |-> "iter_parsed_json",
               yielded |-> iter_parsed_paths(arg.roots[1], arg.tree)]
    /\ UNCHANGED <<arg, store, pc, scan, before, prev, existing, merged, rerun,
                   runs, cumulative, seen, item, kjson, kmeta>>

NextIter == IterJson \/ IterParsed

SpecIter == InitIter /\ [][NextIter]_vars

\* C12: whatever roots are scanned, no file yielded for ingestion is the
\* output file.
C12_OutNeverIngested ==
    \A i \in 1..Len(res.yielded) :
        abspath(res.yielded[i]) # abspath(arg.out)

\* The part of C12 that aggregate_json keeps: iter_json_files never yields
\* the output file, though the roots hold it and spell it otherwise
C12_JsonOutNeverIngested ==
    res.fn = "iter_json_files" =>
        \A i \in 1..Len(res.yielded) :
            abspath(res.yielded[i]) # abspath(arg.out)

\* The output file exists under a scanned root spelled unlike --out, and the
\* other files of the root were yielded
C12_JsonWitness ==
    /\ res.fn = "iter_json_files"
    /\ arg.roots = <<<<".", "data">>>>
    /\ arg.out = <<"data", "metadata.json">>
    /\ arg.tree = AllFiles
    /\ Len(res.yielded) = 3

(***************************************************************************)
(* What one input file becomes (C13, C14): records_from_data and           *)
(* load_items_from_file applied to one file                                *)
(***************************************************************************)
MaxItems == 2

RecNullPath == Obj(<<<<"source_path", Null>>>>)

\* What an array of an input file may hold
Elements == {Null, Str("s"), RecV, RecOldU, RecNullPath}

\* What an input file may hold: one value, an array of values, or no JSON
Contents ==
    Elements \cup {List(l) : l \in SeqsUpTo(Elements, MaxItems)} \cup {Bad}

InitIngest ==
    /\ Idle
    /\ NoProbe
    /\ store = Missing
    /\ arg \in [data : Contents, path : {PathNames[1], PathNames[2]}]
    /\ res = NotCalled

\* aggregate_json.main, lines 108-109
IngestJson ==
    /\ res = NotCalled
    /\ res' = [fn |-> "records_from_data",
               yielded |-> records_from_data(load_json_safely(arg.data), arg.path)]
    /\ UNCHANGED <<arg, store, pc, scan, before, prev, existing, merged, rerun,
                   runs, cumulative, seen, item, kjson, kmeta>>

\* aggregate_metadata.main, line 83
IngestParsed ==
    /\ res = NotCalled
    /\ res' = [fn |-> "load_items_from_file",
               yielded |-> load_items_from_file(arg.data, arg.path)]
    /\ UNCHANGED <<arg, store, pc, scan, before, prev, existing, merged, rerun,
                   runs, cumulative, seen, item, kjson, kmeta>>

NextIngest == IngestJson \/ IngestParsed

SpecIngest == InitIngest /\ [][NextIngest]_vars

\* The values of a file, in order: the items of an array, or the one value
Elems(data) == IF IsList(data) THEN data.l ELSE <<data>>

\* The source_path a record made from value el of the file at path must carry
PathDue(el, path) ==
    IF IsDict(el) /\ Has(el.d, "source_path") THEN Get(el.d, "source_path")
    ELSE Str(path)

\* C13: every record ingestion produces has a source_path field; it holds
\* the value the record came with if it had the field, and the path of the
\* file it was read from otherwise.
C13_SourcePathStamped ==
    \A i \in 1..Len(res.yielded) :
        /\ Has(res.yielded[i].d, "source_path")
        /\ Get(res.yielded[i].d, "source_path") = PathDue(Elems(arg.data)[i], arg.path)

\* The part of C13 that aggregate_json keeps
C13_JsonSourcePathStamped ==
    res.fn = "records_from_data" =>
        \A i \in 1..Len(res.yielded) :
            /\ Has(res.yielded[i].d, "source_path")
            /\ Get(res.yielded[i].d, "source_path")
                 = PathDue(Elems(arg.data)[i], arg.path)

\* records_from_data stamped one record and left the other's path alone
C13_JsonWitness ==
    /\ res.fn = "records_from_data"
    /\ arg.data = List(<<RecV, RecOldU>>)
    /\ res.yielded = <<WithPath(RecV, arg.path), RecOldU>>

\* Record rec is value el as a record: the object itself (source_path
\* added at most), or el under the name _raw
Carries(rec, el) ==
    IF IsDict(el)
    THEN /\ Len(rec.d) \in {Len(el.d), Len(el.d) + 1}
         /\ SubSeq(rec.d, 1, Len(el.d)) = el.d
    ELSE /\ Len(rec.d) \in {1, 2}
         /\ rec.d[1] = <<"_raw", el>>

\* C14 as stated: a file holding one value gives one record, an array gives
\* one record per item in order, and every value that is no object, null
\* included, at top level or in the array, is wrapped as {"_raw": value}.
C14_EveryValueARecord ==
    (res.fn = "records_from_data" /\ arg.data # Bad) =>
        /\ Len(res.yielded) = Len(Elems(arg.data))
        /\ \A i \in 1..Len(res.yielded) :
            Carries(res.yielded[i], Elems(arg.data)[i])

\* C14 amended: the same, except that a file whose top-level value is null
\* gives no record at all.
C14_NullFileNoRecord ==
    (res.fn = "records_from_data" /\ arg.data # Bad) =>
        IF arg.data = Null THEN res.yielded = <<>>
        ELSE /\ Len(res.yielded) = Len(Elems(arg.data))
             /\ \A i \in 1..Len(res.yielded) :
                  Carries(res.yielded[i], Elems(arg.data)[i])

\* An array of an object and a null gave the object and {"_raw": null}
C14_Witness ==
    /\ res.fn = "records_from_data"
    /\ arg.data = List(<<RecV, Null>>)
    /\ Len(res.yielded) = 2
    /\ res.yielded[1].d[1] = RecV.d[1]
    /\ res.yielded[2].d[1] = <<"_raw", Null>>

(***************************************************************************)
(* metadata_to_csv.py: text.  A Python str is the sequence of its          *)
(* characters, so that strip, lower, re.sub, re.split, len and "in" are    *)
(* computed character by character.                                        *)
(***************************************************************************)
UpperLetters ==
    <<"A", "B", "C", "D", "E", "F", "G", "H", "I", "J", "K", "L", "M",
      "N", "O", "P", "Q", "R", "S", "T", "U", "V", "W", "X", "Y", "Z">>

LowerLetters ==
    <<"a", "b", "c", "d", "e", "f", "g", "h", "i", "j", "k", "l", "m",
      "n", "o", "p", "q", "r", "s", "t", "u", "v", "w", "x", "y", "z">>

LowerChar(c) ==
    IF \E i \in 1..Len(UpperLetters) : UpperLetters[i] = c
    THEN LowerLetters[CHOOSE i \in 1..Len(UpperLetters) : UpperLetters[i] = c]
    ELSE c

\* str.lower
lower(s) == [i \in 1..Len(s) |-> LowerChar(s[i])]

\* The characters \s matches
Spaces == {" ", "\t"}

RECURSIVE lstrip(_)
lstrip(s) == IF s # <<>> /\ Head(s) \in Spaces THEN lstrip(Tail(s)) ELSE s

RECURSIVE rstrip(_)
rstrip(s) ==
    IF s # <<>> /\ s[Len(s)] \in Spaces THEN rstrip(SubSeq(s, 1, Len(s) - 1))
    ELSE s

\* str.strip
strip(s) == rstrip(lstrip(s))

\* re.sub(r"[S]+", rep, s): every run of characters of S becomes rep
RECURSIVE SquashFrom(_, _, _, _)
SquashFrom(s, i, S, rep) ==
    IF i > Len(s) THEN <<>>
    ELSE IF s[i] \in S
         THEN (IF i > 1 /\ s[i - 1] \in S THEN <<>> ELSE <<rep>>)
              \o SquashFrom(s, i + 1, S, rep)
    ELSE <<s[i]>> \o SquashFrom(s, i + 1, S, rep)

Squash(s, S, rep) == SquashFrom(s, 1, S, rep)

\* normalize_component(s): re.sub(r"\s+", " ", s.strip().lower())
normalize_component(s) == Squash(lower(strip(s)), Spaces, " ")

\* A text whose scheme is left in place
KeepScheme(s) == s

FileScheme == <<"f", "i", "l", "e", ":">>

\* Number of "/" at the start of s
RECURSIVE LeadingSlashes(_)
LeadingSlashes(s) ==
    IF s # <<>> /\ Head(s) = "/" THEN 1 + LeadingSlashes(Tail(s)) ELSE 0

\* re.sub(r"^file:(/{2,3})?", "", s, flags=re.IGNORECASE): the scheme and,
\* when two or more slashes follow it, two or three of them (three if there)
StripFileScheme(s) ==
    IF Len(s) >= Len(FileScheme) /\ lower(SubSeq(s, 1, Len(FileScheme))) = FileScheme
    THEN LET rest == SubSeq(s, Len(FileScheme) + 1, Len(s))
             n == LeadingSlashes(rest)
             cut == IF n >= 3 THEN 3 ELSE IF n = 2 THEN 2 ELSE 0
         IN  SubSeq(rest, cut + 1, Len(rest))
    ELSE s

\* normalize_path(s)
normalize_path(s) ==
    LET s1 == StripFileScheme(strip(s))
        s2 == [i \in 1..Len(s1) |-> IF s1[i] = "\\" THEN "/" ELSE s1[i]]
        s3 == Squash(s2, {"/"}, "/")
    IN  lower(Squash(s3, Spaces, " "))

\* split_path_components(p): re.split(r"[\\/]+", p) without the empty parts
RECURSIVE SplitFrom(_, _, _, _)
SplitFrom(p, i, cur, acc) ==
    IF i > Len(p) THEN (IF cur = <<>> THEN acc ELSE Append(acc, cur))
    ELSE IF p[i] \in {"\\", "/"}
         THEN SplitFrom(p, i + 1, <<>>, IF cur = <<>> THEN acc ELSE Append(acc, cur))
    ELSE SplitFrom(p, i + 1, Append(cur, p[i]), acc)

split_path_components(p) == SplitFrom(p, 1, <<>>, <<>>)

\* key in full
Contains(key, full) ==
    /\ Len(key) <= Len(full)
    /\ \E i \in 0..(Len(full) - Len(key)) : SubSeq(full, i + 1, i + Len(key)) = key

(***************************************************************************)
(* metadata_to_csv.py: the roster (users.csv).  A file is the rows         *)
(* csv.reader gives, each row the sequence of its cells.                   *)
(***************************************************************************)
\* UsersIndex({}, [])
EmptyIndex == [component_map |-> <<>>, path_list |-> <<>>]

\* Line 105: the rows with a cell that is not blank
NonBlankRows(rows) ==
    SelectSeq(rows, LAMBDA r : \E i \in 1..Len(r) : strip(r[i]) # <<>>)

FolderName == <<"f", "o", "l", "d", "e", "r">>
EmailName == <<"e", "m", "a", "i", "l">>

\* The cells of the first row as they are written
header_as_written(rows) == rows[1]

\* Line 112
header(rows) == [i \in 1..Len(rows[1]) |-> lower(strip(rows[1][i]))]

\* Line 113
has_header(rows) ==
    /\ FolderName \in ItemSet(header(rows))
    /\ EmailName \in ItemSet(header(rows))

\* list.index, counting from 1
IndexOf(l, x) ==
    CHOOSE i \in 1..Len(l) : l[i] = x /\ \A j \in 1..(i - 1) : l[j] # x

\* Lines 115-120; columns count from 1 and 0 stands for "the last column"
folder_idx(rows) == IF has_header(rows) THEN IndexOf(header(rows), FolderName) ELSE 1

email_idx(rows) == IF has_header(rows) THEN IndexOf(header(rows), EmailName) ELSE 0

\* Line 128
folder_raw(r, fi) == IF fi <= Len(r) THEN strip(r[fi]) ELSE <<>>

\* Line 129
email_of(r, ei) ==
    IF ei # 0 /\ ei <= Len(r) THEN strip(r[ei])
    ELSE IF r # <<>> THEN strip(r[Len(r)])
    ELSE <<>>

\* component_map.setdefault(comp, email)
SetComponentOnce(cm, comp, email) == SetDefault(cm, comp, email)

\* Line 138: component_map[comp] = email
SetComponent(cm, comp, email) == DictSet(cm, comp, email)

\* Lines 135-138
RECURSIVE AddComponents(_, _, _, _)
AddComponents(cm, comps, i, email) ==
    IF i > Len(comps) THEN cm
    ELSE LET comp == normalize_component(comps[i])
         IN  AddComponents(IF comp # <<>> THEN SetComponent(cm, comp, email) ELSE cm,
                           comps, i + 1, email)

\* Lines 126-143: one row
AddRow(ix, r, fi, ei) ==
    LET folder == folder_raw(r, fi)
        email == email_of(r, ei)
        path_norm == normalize_path(folder)
    IN  IF folder = <<>> \/ email = <<>> THEN ix
        ELSE [component_map |->
                AddComponents(ix.component_map, split_path_components(folder), 1, email),
              path_list |->
                IF path_norm # <<>> THEN Append(ix.path_list, <<path_norm, email>>)
                ELSE ix.path_list]

RECURSIVE ReadRows(_, _, _, _, _)
ReadRows(ix, rows, i, fi, ei) ==
    IF i > Len(rows) THEN ix
    ELSE ReadRows(AddRow(ix, rows[i], fi, ei), rows, i + 1, fi, ei)

\* read_users_index(path); file.found is os.path.exists(path)
read_users_index(file) ==
    IF ~file.found THEN EmptyIndex
    ELSE LET rows == NonBlankRows(file.rows)
         IN  IF rows = <<>> THEN EmptyIndex
             ELSE ReadRows(EmptyIndex, rows, IF has_header(rows) THEN 2 ELSE 1,
                           folder_idx(rows), email_idx(rows))

(***************************************************************************)
(* metadata_to_csv.py: the matcher                                         *)
(***************************************************************************)
CANDIDATE_TOP_LEVEL_FIELDS ==
    <<"file_path", "txrm_file_path", "file_hyperlink", "source_path">>

CANDIDATE_CALIB_FIELDS ==
    <<"MGainImg", "OffsetImg", "GainImg", "DefPixelImg", "calib_folder_path">>

NotAvailable == <<"n", "/", "a">>

\* Every string is taken, without its surrounding white space
add_any_string(candidates, val) ==
    IF val.t = "str" THEN Append(candidates, strip(val.s)) ELSE candidates

\* maybe_add(val), lines 174-178
maybe_add(candidates, val) ==
    IF val.t = "str"
    THEN LET v == strip(val.s)
         IN  IF v # <<>> /\ lower(v) # NotAvailable THEN Append(candidates, v)
             ELSE candidates
    ELSE candidates

\* Lines 181-183 and 188-190: the named fields of one dict, in field order
RECURSIVE GatherFrom(_, _, _, _)
GatherFrom(d, fields, i, candidates) ==
    IF i > Len(fields) THEN candidates
    ELSE GatherFrom(d, fields, i + 1,
                    IF Has(d, fields[i]) THEN maybe_add(candidates, Get(d, fields[i]))
                    ELSE candidates)

\* gather_candidate_paths(meta)
gather_candidate_paths(meta) ==
    LET top == GatherFrom(meta.d, CANDIDATE_TOP_LEVEL_FIELDS, 1, <<>>)
        calib == IF Has(meta.d, "calib_images") THEN Get(meta.d, "calib_images")
                 ELSE Obj(<<>>)
    IN  IF IsDict(calib) THEN GatherFrom(calib.d, CANDIDATE_CALIB_FIELDS, 1, top)
        ELSE top

\* Lines 207-208
NoBest == [weight |-> -1, email |-> <<>>]

\* A match replaces the best one whatever its weight
LastFound(w, best_weight) == TRUE

\* A match replaces the best one unless it is lighter
NotLighter(w, best_weight) == w >= best_weight

\* Lines 219 and 227: if w > best_weight
Heavier(w, best_weight) == w > best_weight

\* Lines 215-221: the components of one candidate against component_map
RECURSIVE ComponentPass(_, _, _, _)
ComponentPass(comps, i, component_map, best) ==
    IF i > Len(comps) THEN best
    ELSE LET c == comps[i]
             email == IF Has(component_map, c) THEN Get(component_map, c) ELSE <<>>
         IN  ComponentPass(comps, i + 1, component_map,
                 IF email # <<>> /\ Heavier(Len(c), best.weight)
                 THEN [weight |-> Len(c), email |-> email]
                 ELSE best)

\* A second pass that looks at nothing
NoPathPass(path_list, i, full_norm, best) == best

\* Lines 224-229: path_list against one candidate's normalized path
RECURSIVE PathPass(_, _, _, _)
PathPass(path_list, i, full_norm, best) ==
    IF i > Len(path_list) THEN best
    ELSE LET key_norm_path == path_list[i][1]
             email == path_list[i][2]
         IN  PathPass(path_list, i + 1, full_norm,
                 IF /\ key_norm_path # <<>>
                    /\ Contains(key_norm_path, full_norm)
                    /\ Heavier(Len(key_norm_path), best.weight)
                 THEN [weight |-> Len(key_norm_path), email |-> email]
                 ELSE best)

\* normalize_component of every component of raw (line 212)
CompsOf(raw) ==
    LET parts == split_path_components(raw)
    IN  [i \in 1..Len(parts) |-> normalize_component(parts[i])]

\* Lines 210-229: the loop over the candidates
RECURSIVE ScanCandidates(_, _, _, _)
ScanCandidates(candidates, i, users, best) ==
    IF i > Len(candidates) THEN best
    ELSE LET raw == candidates[i]
             afterComps == ComponentPass(CompsOf(raw), 1, users.component_map, best)
         IN  ScanCandidates(candidates, i + 1, users,
                 PathPass(users.path_list, 1, normalize_path(raw), afterComps))

\* find_user_email_for_record(meta, users)
find_user_email_for_record(meta, users) ==
    IF users.component_map = <<>> /\ users.path_list = <<>> THEN <<>>
    ELSE LET candidates == gather_candidate_paths(meta)
         IN  IF candidates = <<>> THEN <<>>
             ELSE ScanCandidates(candidates, 1, users, NoBest).email

(***************************************************************************)
(* The roster is read, then a record is matched against it (main, lines    *)
(* 251 and 258)                                                            *)
(***************************************************************************)
MaxRows == 2

TxtAb == <<"a", "b">>
TxtCd == <<"c", "d">>
TxtAbc == <<"a", "b", "c">>
TxtJ == <<"j">>
TxtK == <<"k">>
TxtM == <<"m">>

HdrFolderEmail == <<<<"F", "o", "l", "d", "e", "r">>, <<"E", "m", "a", "i", "l">>>>
HdrNameEmail == <<<<"N", "a", "m", "e">>, <<"E", "m", "a", "i", "l">>>>
HdrEmailFolder == <<<<" ", "E", "M", "A", "I", "L">>, <<"f", "o", "l", "d", "e", "r", " ">>>>
HdrThree ==
    <<<<"F", "o", "l", "d", "e", "r">>, <<"U", "s", "e", "r", " ", "n", "a", "m", "e">>,
      <<"E", "m", "a", "i", "l">>>>

RowAbJ == <<TxtAb, TxtJ>>
RowAbK == <<TxtAb, TxtK>>
RowCdK == <<TxtCd, TxtK>>
RowAbcM == <<TxtAbc, TxtM>>
RowPathM == <<<<"A", "B", "\\", "c", "d">>, TxtM>>
RowOneCell == <<TxtAb>>
RowNoEmail == <<TxtAb, <<>>>>
RowNoFolder == <<<<" ">>, TxtJ>>
RowScheme == <<<<"f", "i", "l", "e", ":", "/", "/">>, TxtJ>>
RowThree == <<TxtCd, <<"x">>, TxtK>>
RowBlank == <<<<>>, <<" ">>>>
RowEmailFirst == <<TxtJ, TxtCd>>

\* The rows a users.csv may hold
RosterRows ==
    {HdrFolderEmail, HdrNameEmail, HdrEmailFolder, HdrThree, RowAbJ, RowPathM,
     RowOneCell, RowNoEmail, RowNoFolder, RowScheme, RowThree, RowBlank,
     RowEmailFirst}

\* Rows with a folder and an identity, for the rosters records are matched
\* against
PlainRows == {RowAbJ, RowAbK, RowCdK, RowAbcM, RowPathM}

NoUsersFile == [found |-> FALSE, rows |-> <<>>]

UsersFile(rows) == [found |-> TRUE, rows |-> rows]

\* Values of the path fields of a record
PathAbCd == Str(<<"a", "b", "/", "c", "d">>)
PathCdAb == Str(<<" ", "C", "D", "\\", "a", "b">>)
PathXAbc == Str(<<"f", "i", "l", "e", ":", "/", "/", "/", "x", "/", "a", "b", "c">>)
PathNA == Str(<<"N", "/", "A">>)
PathCd == Str(TxtCd)
Absent == Missing

\* A record with the given file_path, source_path and calib_images.MGainImg
MetaOf(fp, sp, mg) ==
    Obj((IF sp = Absent THEN <<>> ELSE <<<<"source_path", sp>>>>)
        \o (IF fp = Absent THEN <<>> ELSE <<<<"file_path", fp>>>>)
        \o (IF mg = Absent THEN <<>>
            ELSE <<<<"calib_images", Obj(<<<<"MGainImg", mg>>>>)>>>>))

Metas ==
    {MetaOf(fp, sp, mg) :
        fp \in {Absent, PathAbCd, PathCdAb, PathXAbc, PathNA, Num("7")},
        sp \in {Absent, PathAbCd, PathXAbc},
        mg \in {Absent, PathCd}}

NotRead == [fn |-> "none", users |-> EmptyIndex, email |-> <<>>]

\* Any roster with no record to match, or a plain roster and a record
InitUsers ==
    /\ Idle
    /\ NoProbe
    /\ store = Missing
    /\ \/ arg \in [users : {NoUsersFile} \cup
                           {UsersFile(r) : r \in SeqsUpTo(RosterRows, MaxRows)},
                   meta : {Obj(<<>>)}]
       \/ arg \in [users : {UsersFile(r) : r \in SeqsUpTo(PlainRows, MaxRows)},
                   meta : Metas]
    /\ res = NotRead

\* main, line 251: users = read_users_index(USERS_CSV)
ReadUsers ==
    /\ res.fn = "none"
    /\ res' = [fn |-> "read_users_index", users |-> read_users_index(arg.users),
               email |-> <<>>]
    /\ UNCHANGED <<arg, store, pc, scan, before, prev, existing, merged, rerun,
                   runs, cumulative, seen, item, kjson, kmeta>>

\* main, line 258: find_user_email_for_record(rec, users)
FindUser ==
    /\ res.fn = "read_users_index"
    /\ res' = [fn |-> "find_user_email_for_record", users |-> res.users,
               email |-> find_user_email_for_record(arg.meta, res.users)]
    /\ UNCHANGED <<arg, store, pc, scan, before, prev, existing, merged, rerun,
                   runs, cumulative, seen, item, kjson, kmeta>>

NextUsers == ReadUsers \/ FindUser

SpecUsers == InitUsers /\ [][NextUsers]_vars

(***************************************************************************)
(* Properties of the matcher (checked under SpecUsers)                     *)
(***************************************************************************)
\* The matches of one candidate: its components found in component_map,
\* left to right, then the path_list entries its normalized path contains
MatchesOf(raw, users) ==
    LET hitc == SelectSeq(CompsOf(raw), LAMBDA c : Has(users.component_map, c))
        hitp == SelectSeq(users.path_list,
                          LAMBDA e : Contains(e[1], normalize_path(raw)))
    IN  [i \in 1..Len(hitc) |->
            [weight |-> Len(hitc[i]), email |-> Get(users.component_map, hitc[i])]]
        \o [i \in 1..Len(hitp) |-> [weight |-> Len(hitp[i][1]), email |-> hitp[i][2]]]

\* Every match of a record, in scan order
RECURSIVE MatchesFrom(_, _, _)
MatchesFrom(candidates, i, users) ==
    IF i > Len(candidates) THEN <<>>
    ELSE MatchesOf(candidates[i], users) \o MatchesFrom(candidates, i + 1, users)

Matches == MatchesFrom(gather_candidate_paths(arg.meta), 1, res.users)

Found == res.fn = "find_user_email_for_record"

\* C15: when a record has matches, the identity returned is that of a match
\* no other match, of any candidate and either pass, outweighs.
C15_GreatestWeight ==
    Found =>
        LET ms == Matches
        IN  ms # <<>> =>
                \E n \in 1..Len(ms) :
                    /\ ms[n].email = res.email
                    /\ \A k \in 1..Len(ms) : ms[k].weight <= ms[n].weight

\* A lighter match of another identity comes first in the scan and the
\* heavier, later one is returned
C15_Witness ==
    /\ Found
    /\ LET ms == Matches
       IN  \E n, k \in 1..Len(ms) :
            /\ n < k
            /\ ms[n].weight < ms[k].weight
            /\ ms[n].email # ms[k].email
            /\ res.email = ms[k].email
            /\ \A h \in 1..Len(ms) : ms[h].email = res.email => h >= k

\* C16: among matches of one greatest weight the first in scan order gives
\* the identity: every match before it is lighter, and a later match of the
\* same weight does not replace it.
C16_FirstOfEqualWeight ==
    Found =>
        LET ms == Matches
        IN  ms # <<>> =>
                \E n \in 1..Len(ms) :
                    /\ ms[n].email = res.email
                    /\ \A k \in 1..Len(ms) : ms[k].weight <= ms[n].weight
                    /\ \A k \in 1..(n - 1) : ms[k].weight < ms[n].weight

\* Two matches of the greatest weight name different identities and the
\* earlier one is returned
C16_Witness ==
    /\ Found
    /\ LET ms == Matches
       IN  \E n, k \in 1..Len(ms) :
            /\ n < k
            /\ ms[n].weight = ms[k].weight
            /\ ms[n].email # ms[k].email
            /\ \A h \in 1..Len(ms) : ms[h].weight <= ms[n].weight
            /\ \A h \in 1..(n - 1) : ms[h].weight < ms[n].weight
            /\ res.email = ms[n].email

\* C17: the matcher returns the empty identity when the index is empty or
\* the record has no match, and a non-empty identity only when it has one.
C17_EmptyIffNoMatch ==
    Found =>
        LET ms == Matches
        IN  /\ (res.users = EmptyIndex \/ ms = <<>>) => res.email = <<>>
            /\ res.email # <<>> => ms # <<>>
            /\ ms # <<>> => res.email # <<>>

\* The index has entries, the record has candidate paths, none matches
C17_Witness ==
    /\ Found
    /\ res.users.path_list # <<>>
    /\ gather_candidate_paths(arg.meta) # <<>>
    /\ Matches = <<>>
    /\ res.email = <<>>

(***************************************************************************)
(* Properties of the roster index (checked under SpecUsers)                *)
(***************************************************************************)
WasRead == res.fn = "read_users_index"

\* The rows of the file that are not blank (blank rows are dropped before
\* anything else looks at the file)
FileRows == NonBlankRows(arg.users.rows)

\* Number of cells of a row that are not blank
Populated(r) == Cardinality({i \in 1..Len(r) : strip(r[i]) # <<>>})

\* C18: a row with fewer than two populated columns, or an empty folder or
\* identity, is skipped: the index has at most one path_list entry per row
\* with two populated columns, and no entry at all when no row has two.
C18_DeficientRowsSkipped ==
    WasRead =>
        LET rows == FileRows
            full == {i \in 1..Len(rows) : Populated(rows[i]) >= 2}
        IN  /\ Len(res.users.path_list) <= Cardinality(full)
            /\ full = {} => res.users = EmptyIndex

\* The part of C18 the code keeps: no entry of the index has an empty folder
\* path or an empty identity
C18_NoEmptyFolderOrIdentity ==
    WasRead =>
        /\ \A i \in 1..Len(res.users.path_list) :
            /\ res.users.path_list[i][1] # <<>>
            /\ res.users.path_list[i][2] # <<>>
        /\ \A i \in 1..Len(res.users.component_map) :
            /\ res.users.component_map[i][1] # <<>>
            /\ res.users.component_map[i][2] # <<>>

\* Rows without folder or without identity were read and left no entry
C18_EmptyWitness ==
    /\ WasRead
    /\ arg.users.rows = <<RowNoEmail, RowNoFolder>>
    /\ res.users = EmptyIndex

\* The names of a row's cells as a header would be read: trimmed, lower-case
CellNames(r) == {lower(strip(r[i])) : i \in 1..Len(r)}

TxtName == <<"n", "a", "m", "e">>

\* A header as C19 states it: an email column and a folder or name column
StatedHeader(r) ==
    /\ EmailName \in CellNames(r)
    /\ FolderName \in CellNames(r) \/ TxtName \in CellNames(r)

\* A header as line 113 has it: an email column and a folder column
FolderEmailHeader(r) == EmailName \in CellNames(r) /\ FolderName \in CellNames(r)

AcceptedRows ==
    LET rows == FileRows
    IN  IF rows = <<>> THEN <<>>
        ELSE LET fi == folder_idx(rows)
                 ei == email_idx(rows)
                 data == SubSeq(rows, IF has_header(rows) THEN 2 ELSE 1, Len(rows))
                 pairs == [i \in 1..Len(data) |->
                             [folder |-> folder_raw(data[i], fi),
                              email |-> email_of(data[i], ei)]]
             IN  SelectSeq(pairs, LAMBDA a : a.folder # <<>> /\ a.email # <<>>)

\* The normalized components of an accepted row's folder
ComponentsIn(a) == ItemSet(CompsOf(a.folder)) \ {<<>>}

\* component_map cm maps each component of the accepted rows acc to the
\* identity of the last row that has it, and nothing else
ComponentsMapped(cm, acc) ==
    /\ {cm[i][1] : i \in 1..Len(cm)}
         = UNION {ComponentsIn(acc[i]) : i \in 1..Len(acc)}
    /\ \A i \in 1..Len(cm) :
        \E n \in 1..Len(acc) :
            /\ cm[i][1] \in ComponentsIn(acc[n])
            /\ cm[i][2] = acc[n].email
            /\ \A k \in (n + 1)..Len(acc) : cm[i][1] \notin ComponentsIn(acc[k])
    /\ \A i, j \in 1..Len(cm) : i # j => cm[i][1] # cm[j][1]

\* C20 as stated: every component of an accepted row is mapped to the row's
\* identity, a later row overwriting an earlier one, and path_list has the
\* pair (normalized folder path, identity) of every accepted row, once, in
\* roster order.
C20_EntryPerAcceptedRow ==
    WasRead =>
        LET acc == AcceptedRows
        IN  /\ ComponentsMapped(res.users.component_map, acc)
            /\ res.users.path_list
                 = [i \in 1..Len(acc) |-> <<normalize_path(acc[i].folder), acc[i].email>>]

\* C20 amended: the same, with path_list holding the pair of every accepted
\* row whose normalized folder path is not empty.
C20_EntryPerPathRow ==
    WasRead =>
        LET acc == AcceptedRows
            withPath == SelectSeq(acc, LAMBDA a : normalize_path(a.folder) # <<>>)
        IN  /\ ComponentsMapped(res.users.component_map, acc)
            /\ res.users.path_list
                 = [i \in 1..Len(withPath) |->
                      <<normalize_path(withPath[i].folder), withPath[i].email>>]

\* Two accepted rows share the component "ab": the later identity holds it,
\* and path_list has both rows in roster order
C20_Witness ==
    /\ WasRead
    /\ arg.users.rows = <<RowAbJ, RowPathM>>
    /\ res.users.component_map = <<<<TxtAb, TxtM>>, <<TxtCd, TxtM>>>>
    /\ res.users.path_list
         = <<<<TxtAb, TxtJ>>, <<<<"a", "b", "/", "c", "d">>, TxtM>>>>

(***************************************************************************)
(* metadata_to_csv.py: flatten_dict (C21).  The record is grown one field  *)
(* or one level at a time and then flattened.                              *)
(***************************************************************************)
MaxDepth == 2

\* Fields of a record, those of its nested records included
MaxSize == 3

\* out.setdefault(key, v)
FlatPutOnce(out, key, v) == SetDefault(out, key, v)

\* Line 70: out[key] = v
FlatPut(out, key, v) == DictSet(out, key, v)

\* flatten_dict(d, prefix, out)
RECURSIVE flatten_dict(_, _, _)
RECURSIVE FlattenFrom(_, _, _, _)
FlattenFrom(pairs, i, prefix, out) ==
    IF i > Len(pairs) THEN out
    ELSE LET k == pairs[i][1]
             v == pairs[i][2]
             key == IF prefix = "" THEN prefix \o k ELSE prefix \o "." \o k
         IN  FlattenFrom(pairs, i + 1, prefix,
                         IF IsDict(v) THEN flatten_dict(v, key, out)
                         ELSE FlatPut(out, key, v))

flatten_dict(d, prefix, out) == FlattenFrom(d.d, 1, prefix, out)

\* Field names and the values that are no mapping
FlatNames == {"a", "b", "a.b"}

FlatValues == {Num("1"), Str("x"), List(<<Obj(<<>>)>>)}

\* Nesting depth of a value: 0 for a scalar, 1 for a flat mapping
RECURSIVE Depth(_)
RECURSIVE DepthFrom(_, _)
DepthFrom(pairs, i) ==
    IF i > Len(pairs) THEN 0
    ELSE LET rest == DepthFrom(pairs, i + 1)
             here == Depth(pairs[i][2])
         IN  IF here > rest THEN here ELSE rest

Depth(v) == IF IsDict(v) THEN 1 + DepthFrom(v.d, 1) ELSE 0

\* Number of fields of a value, at any depth
RECURSIVE Size(_)
RECURSIVE SizeFrom(_, _)
SizeFrom(pairs, i) ==
    IF i > Len(pairs) THEN 0
    ELSE 1 + Size(pairs[i][2]) + SizeFrom(pairs, i + 1)

Size(v) == IF IsDict(v) THEN SizeFrom(v.d, 1) ELSE 0

NotFlattened == [fn |-> "none", out |-> <<>>]

InitFlat ==
    /\ Idle
    /\ NoProbe
    /\ store = Missing
    /\ arg = Obj(<<>>)
    /\ res = NotFlattened

\* The record gets one more field, after or before the fields it has
AddLeaf ==
    /\ res = NotFlattened
    /\ Size(arg) < MaxSize
    /\ \E n \in FlatNames, v \in FlatValues :
        /\ ~Has(arg.d, n)
        /\ \/ arg' = Obj(Append(arg.d, <<n, v>>))
           \/ arg' = Obj(<<<<n, v>>>> \o arg.d)
    /\ UNCHANGED <<res, store, pc, scan, before, prev, existing, merged, rerun,
                   runs, cumulative, seen, item, kjson, kmeta>>

\* The record becomes the value of a field of a new record
Nest ==
    /\ res = NotFlattened
    /\ Depth(arg) < MaxDepth
    /\ Size(arg) < MaxSize
    /\ \E n \in FlatNames : arg' = Obj(<<<<n, arg>>>>)
    /\ UNCHANGED <<res, store, pc, scan, before, prev, existing, merged, rerun,
                   runs, cumulative, seen, item, kjson, kmeta>>

\* main, line 257: flat = flatten_dict(rec)
Flatten ==
    /\ res = NotFlattened
    /\ res' = [fn |-> "flatten_dict", out |-> flatten_dict(arg, "", <<>>)]
    /\ UNCHANGED <<arg, store, pc, scan, before, prev, existing, merged, rerun,
                   runs, cumulative, seen, item, kjson, kmeta>>

NextFlat == AddLeaf \/ Nest \/ Flatten

SpecFlat == InitFlat /\ [][NextFlat]_vars

\* The values of a record that are no mapping, at any depth, in the order
\* they are visited, each with the field names that lead to it
RECURSIVE LeavesFrom(_, _, _)
LeavesFrom(pairs, i, names) ==
    IF i > Len(pairs) THEN <<>>
    ELSE (IF IsDict(pairs[i][2])
          THEN LeavesFrom(pairs[i][2].d, 1, Append(names, pairs[i][1]))
          ELSE <<[names |-> Append(names, pairs[i][1]), value |-> pairs[i][2]]>>)
         \o LeavesFrom(pairs, i + 1, names)

\* Field names joined by dots
RECURSIVE JoinDots(_)
JoinDots(names) ==
    IF Len(names) = 1 THEN names[1]
    ELSE JoinDots(SubSeq(names, 1, Len(names) - 1)) \o "." \o names[Len(names)]

\* C21: the flattened record has no mapping as a value; its keys are the
\* dotted paths of the values that are no mapping, each key once; the value
\* of a key is that of the last visited path with that dotted key.
C21_FlatNoNesting ==
    res.fn = "flatten_dict" =>
        LET lv == LeavesFrom(arg.d, 1, <<>>)
            out == res.out
        IN  /\ \A i \in 1..Len(out) : ~IsDict(out[i][2])
            /\ \A i, j \in 1..Len(out) : i # j => out[i][1] # out[j][1]
            /\ {out[i][1] : i \in 1..Len(out)}
                 = {JoinDots(lv[n].names) : n \in 1..Len(lv)}
            /\ \A i \in 1..Len(out) :
                \E n \in 1..Len(lv) :
                    /\ JoinDots(lv[n].names) = out[i][1]
                    /\ lv[n].value = out[i][2]
                    /\ \A m \in (n + 1)..Len(lv) : JoinDots(lv[m].names) # out[i][1]

\* A record two levels deep in which a nested value and a top-level value
\* share the dotted key "a.b": the later one is in the output
C21_Witness ==
    /\ res.fn = "flatten_dict"
    /\ arg = Obj(<<<<"a", Obj(<<<<"b", Num("1")>>>>)>>, <<"a.b", Str("x")>>>>)
    /\ res.out = <<<<"a.b", Str("x")>>>>

(***************************************************************************)
(* metadata_to_csv.py: normalize_path on a Windows path and on the file:   *)
(* URI spellings of the same path (C22).                                   *)
(***************************************************************************)
MaxSlashes == 4

WindowsPaths ==
    { <<"S", ":", "\\", "A", "b">>,
      <<"S", ":", "\\", "A", "b", "\\", "c", "d">>,
      <<"T", ":", "\\", "a", " ", "b", "\\", "C", "d">>,
      <<"u", ":", "\\", "x">> }

Schemes ==
    { <<"f", "i", "l", "e", ":">>,
      <<"F", "I", "L", "E", ":">>,
      <<"F", "i", "l", "e", ":">> }

\* The URI of a Windows path: the scheme, n slashes, the path with "/"
UriOf(scheme, n, w) ==
    scheme \o [i \in 1..n |-> "/"]
           \o [i \in 1..Len(w) |-> IF w[i] = "\\" THEN "/" ELSE w[i]]

NotNormalized == [fn |-> "none", w |-> <<>>, u |-> <<>>]

InitPath ==
    /\ Idle
    /\ NoProbe
    /\ store = Missing
    /\ res = NotNormalized
    /\ \E w \in WindowsPaths, sc \in Schemes, n \in 0..MaxSlashes :
        arg = [windows |-> w, scheme |-> sc, slashes |-> n]

\* normalize_path applied to the path and to its URI
Normalize ==
    /\ res = NotNormalized
    /\ res' = [fn |-> "normalize_path",
               w |-> normalize_path(arg.windows),
               u |-> normalize_path(UriOf(arg.scheme, arg.slashes, arg.windows))]
    /\ UNCHANGED <<arg, store, pc, scan, before, prev, existing, merged, rerun,
                   runs, cumulative, seen, item, kjson, kmeta>>

NextPath == Normalize

SpecPath == InitPath /\ [][NextPath]_vars

\* C22 as stated: a Windows path and every file: URI spelling of it, with
\* any number of slashes after the scheme, normalize to the same string.
C22_AnySlashesSameString ==
    res.fn = "normalize_path" => res.u = res.w

\* C22 amended: the result has no backslash, no capital letter and no
\* doubled slash; the URI spellings with zero, two or three slashes after
\* the scheme normalize to the string of the Windows path, those with one
\* slash or with four or more to that string with "/" in front.
C22_TwoOrThreeSlashesStripped ==
    res.fn = "normalize_path" =>
        /\ \A i \in 1..Len(res.u) :
            /\ res.u[i] # "\\"
            /\ ~\E j \in 1..Len(UpperLetters) : UpperLetters[j] = res.u[i]
            /\ i > 1 => ~(res.u[i] = "/" /\ res.u[i - 1] = "/")
        /\ arg.slashes \in {0, 2, 3} => res.u = res.w
        /\ arg.slashes \notin {0, 2, 3} => res.u = <<"/">> \o res.w

\* FILE:///T:/a b/Cd and T:\a b\Cd both give t:/a b/cd
C22_Witness ==
    /\ res.fn = "normalize_path"
    /\ arg.slashes = 3
    /\ arg.scheme = <<"F", "I", "L", "E", ":">>
    /\ arg.windows = <<"T", ":", "\\", "a", " ", "b", "\\", "C", "d">>
    /\ res.u = <<"t", ":", "/", "a", " ", "b", "/", "c", "d">>
    /\ res.w = res.u

(***************************************************************************)
(* metadata_to_csv.py: main, the CSV projection of the store (C23).        *)
(* The texts of this section are sequences of characters.                  *)
(***************************************************************************)
IdentityColumn == "X-ray User"

\* Lines 264-283: preferred
PREFERRED ==
    <<"file_name", "file_hyperlink", "file_path", "txrm_file_path",
      "start_time", "end_time", "ct_voxel_size_um", "ct_objective",
      "ct_number_images", "xray_tube_voltage", "xray_tube_current",
      "xray_tube_power", "xray_filter", "image_width_pixels",
      "image_height_pixels", "scan_time", "sha256", "source_path">>

IsPreferred(fn) == \E i \in 1..Len(PREFERRED) : PREFERRED[i] = fn

\* The order of str.__lt__ on the column names that are not preferred:
\* by code point, capital letters before "_" before small letters
ColumnRanks ==
    <<"X-ray User", "Zeta", "_raw", "a", "b", "b.a", "calib_images.MGainImg">>

\* sorted(names)
sorted_columns(names) == SelectSeq(ColumnRanks, LAMBDA n : n \in names)

\* A column the row lacks is written as "-"
CellOrDash(r, k) == IF Has(r, k) THEN Get(r, k) ELSE Str(<<"-">>)

\* Line 292: r.get(k, "")
CellOf(r, k) == IF Has(r, k) THEN Get(r, k) ELSE Str(<<>>)

\* Lines 256-261: one flattened row per record, with its identity
FlatRows(recs, users) ==
    [i \in 1..Len(recs) |->
        DictSet(flatten_dict(recs[i], "", <<>>), IdentityColumn,
                Str(find_user_email_for_record(recs[i], users)))]

\* Lines 284-285: ordered
OrderedColumns(rows) ==
    LET fieldnames == UNION {Keys(rows[i]) : i \in 1..Len(rows)}
        remaining == sorted_columns({fn \in fieldnames :
                                        ~IsPreferred(fn) /\ fn # IdentityColumn})
    IN  SelectSeq(PREFERRED, LAMBDA fn : fn \in fieldnames)
        \o remaining \o <<IdentityColumn>>

NoCsv == [fn |-> "none", header |-> <<>>, rows |-> <<>>]

\* main(): the header and the data rows written to metadata.csv; no file
\* is written when metadata.json holds no list
csv_main(data, usersFile) ==
    IF ~IsList(data) THEN [fn |-> "ValueError", header |-> <<>>, rows |-> <<>>]
    ELSE LET users == read_users_index(usersFile)
             rows == FlatRows(data.l, users)
             ordered == OrderedColumns(rows)
         IN  [fn |-> "main",
              header |-> ordered,
              rows |-> [i \in 1..Len(rows) |->
                          [k \in 1..Len(ordered) |-> CellOf(rows[i], ordered[k])]]]

\* Records of the store
CsvPathRec == Obj(<<<<"file_path", PathAbCd>>, <<"b", Num(<<"1">>)>>>>)

CsvCalibRec ==
    Obj(<<<<"source_path", PathXAbc>>,
          <<"file_name", Str(TxtAb)>>,
          <<"calib_images", Obj(<<<<"MGainImg", PathCd>>>>)>>,
          <<"a", Null>>>>)

CsvOwnIdentityRec ==
    Obj(<<<<"b", Obj(<<<<"a", Str(TxtK)>>>>)>>,
          <<"Zeta", Num(<<"2">>)>>,
          <<"X-ray User", Str(TxtM)>>>>)

CsvRawRec == Obj(<<<<"_raw", Str(TxtCd)>>, <<"sha256", Str(TxtJ)>>>>)

CsvRecords == {CsvPathRec, CsvCalibRec, CsvOwnIdentityRec, CsvRawRec, Obj(<<>>)}

CsvRosters ==
    {NoUsersFile, UsersFile(<<HdrFolderEmail, RowAbJ, RowCdK>>),
     UsersFile(<<RowAbcM>>)}

InitCsv ==
    /\ Idle
    /\ NoProbe
    /\ store = Missing
    /\ res = NoCsv
    /\ arg \in [data : {CsvPathRec} \cup {List(s) : s \in SeqsUpTo(CsvRecords, MaxItems)},
                users : CsvRosters]

WriteCsv ==
    /\ res = NoCsv
    /\ res' = csv_main(arg.data, arg.users)
    /\ UNCHANGED <<arg, store, pc, scan, before, prev, existing, merged, rerun,
                   runs, cumulative, seen, item, kjson, kmeta>>

NextCsv == WriteCsv

SpecCsv == InitCsv /\ [][NextCsv]_vars

\* Position of a name in a sequence of names, 0 if it is not there
PlaceIn(names, n) ==
    IF \E i \in 1..Len(names) : names[i] = n
    THEN CHOOSE i \in 1..Len(names) : names[i] = n
    ELSE 0

\* C23: the CSV has one data row per record of the store; its columns are
\* the flattened keys of all records, each once: first the preferred ones
\* that occur, in the preferred order, then the others in the order of
\* their names, and "X-ray User" last; a row has the record's value in a
\* column the record has, the empty string in the others, and the matched
\* identity in the last column.
C23_CsvProjection ==
    res.fn = "main" =>
        LET h == res.header
            recs == arg.data.l
            users == read_users_index(arg.users)
            flats == [i \in 1..Len(recs) |-> flatten_dict(recs[i], "", <<>>)]
            last == Len(h)
        IN  /\ Len(res.rows) = Len(recs)
            /\ last >= 1 /\ h[last] = "X-ray User"
            /\ \A i, j \in 1..last : i # j => h[i] # h[j]
            /\ {h[k] : k \in 1..last}
                 = UNION {Keys(flats[i]) : i \in 1..Len(recs)} \cup {"X-ray User"}
            /\ \A j, k \in 1..(last - 1) :
                j < k =>
                    \/ IsPreferred(h[j]) /\ IsPreferred(h[k])
                       /\ PlaceIn(PREFERRED, h[j]) < PlaceIn(PREFERRED, h[k])
                    \/ IsPreferred(h[j]) /\ ~IsPreferred(h[k])
                    \/ ~IsPreferred(h[j]) /\ ~IsPreferred(h[k])
                       /\ PlaceIn(ColumnRanks, h[j]) < PlaceIn(ColumnRanks, h[k])
            /\ \A i \in 1..Len(recs) :
                /\ Len(res.rows[i]) = last
                /\ res.rows[i][last] = Str(find_user_email_for_record(recs[i], users))
                /\ \A k \in 1..(last - 1) :
                    res.rows[i][k] = IF Has(flats[i], h[k]) THEN Get(flats[i], h[k])
                                     ELSE Str(<<>>)

\* Two records with different fields, one of them carrying its own
\* "X-ray User" field: five columns, the matched identity j in the first
\* row, and no identity in the second, whose own "X-ray User" is replaced
C23_Witness ==
    /\ res.fn = "main"
    /\ arg.data = List(<<CsvPathRec, CsvOwnIdentityRec>>)
    /\ arg.users = UsersFile(<<HdrFolderEmail, RowAbJ, RowCdK>>)
    /\ res.header = <<"file_path", "Zeta", "b", "b.a", "X-ray User">>
    /\ res.rows[1] = <<PathAbCd, Str(<<>>), Num(<<"1">>), Str(<<>>), Str(TxtJ)>>
    /\ res.rows[2] = <<Str(<<>>), Num(<<"2">>), Str(<<>>), Str(TxtK), Str(<<>>)>>

(***************************************************************************)
(* aggregate_metadata.py: what a run does with a key the store has (C24)   *)
(***************************************************************************)
\* C24: aggregate_metadata.main upserts: after a completed run that found
\* an array in the store file, the store holds, for every key of the run's input, the last input record of that
\* key, and no two records of the store have the same key.
C24_MetaUpserts ==
    \A p \in Procs :
        (pc[p] = "done" /\ IsList(before[p])) =>
            LET inc == MetaIncoming(p)
            IN  /\ IsList(store)
                /\ \A i \in 1..Len(inc) :
                    (\A j \in (i + 1)..Len(inc) :
                        record_key(inc[j]) # record_key(inc[i]))
                    => inc[i] \in ItemSet(store.l)
                /\ \A i, j \in 1..Len(store.l) :
                    i # j => record_key(store.l[i]) # record_key(store.l[j])

\* What the code does instead: the loaded store is written back whole and
\* in order, followed by the input records whose key was not seen before,
\* the first of each key
C24_MetaAppendsUnseen ==
    \A p \in Procs :
        pc[p] = "done" =>
            LET old == load_existing(before[p])
                inc == MetaIncoming(p)
            IN  /\ IsList(store)
                /\ Len(store.l) >= Len(old)
                /\ SubSeq(store.l, 1, Len(old)) = old
                /\ \A i \in (Len(old) + 1)..Len(store.l) :
                    /\ store.l[i] \in ItemSet(inc)
                    /\ \A j \in 1..(i - 1) :
                        record_key(store.l[j]) # record_key(store.l[i])

(***************************************************************************)
(* metadata_to_csv.py: gather_candidate_paths on records with candidate    *)
(* and other fields, in any order (C25).                                   *)
(***************************************************************************)
GatherTopNames ==
    {"file_path", "txrm_file_path", "file_hyperlink", "source_path", "other_path"}

GatherCalibNames ==
    {"MGainImg", "OffsetImg", "GainImg", "DefPixelImg", "calib_folder_path",
     "OtherImg"}

PathBlank == Str(<<" ", "\t">>)

PathNaSpaced == Str(<<" ", "n", "/", "A", " ">>)

GatherValues == {PathAbCd, PathCdAb, PathNaSpaced, PathBlank, Num("7")}

\* Number of fields of a record, a calib_images mapping counting as the
\* fields it holds
GatherSize(meta) ==
    Len(meta.d)
    + (IF Has(meta.d, "calib_images") /\ IsDict(Get(meta.d, "calib_images"))
       THEN Len(Get(meta.d, "calib_images").d) - 1 ELSE 0)

NotGathered == [fn |-> "none", candidates |-> <<>>]

InitGather ==
    /\ Idle
    /\ NoProbe
    /\ store = Missing
    /\ arg = Obj(<<>>)
    /\ res = NotGathered

\* The record gets one more top-level field
AddTop ==
    /\ res = NotGathered
    /\ GatherSize(arg) < MaxFields
    /\ \E n \in GatherTopNames, v \in GatherValues :
        /\ ~Has(arg.d, n)
        /\ arg' = Obj(Append(arg.d, <<n, v>>))
    /\ UNCHANGED <<res, store, pc, scan, before, prev, existing, merged, rerun,
                   runs, cumulative, seen, item, kjson, kmeta>>

\* The record gets one more field in its calib_images, or a calib_images
\* that is no mapping
AddCalib ==
    /\ res = NotGathered
    /\ GatherSize(arg) < MaxFields
    /\ \/ /\ ~Has(arg.d, "calib_images")
          /\ \E v \in {PathAbCd, Obj(<<>>)} :
                arg' = Obj(Append(arg.d, <<"calib_images", v>>))
       \/ /\ Has(arg.d, "calib_images")
          /\ IsDict(Get(arg.d, "calib_images"))
          /\ \E n \in GatherCalibNames, v \in GatherValues :
                /\ ~Has(Get(arg.d, "calib_images").d, n)
                /\ arg' = Obj(DictSet(arg.d, "calib_images",
                                Obj(Append(Get(arg.d, "calib_images").d, <<n, v>>))))
    /\ UNCHANGED <<res, store, pc, scan, before, prev, existing, merged, rerun,
                   runs, cumulative, seen, item, kjson, kmeta>>

\* find_user_email_for_record, line 203: gather_candidate_paths(meta)
Gather ==
    /\ res = NotGathered
    /\ res' = [fn |-> "gather_candidate_paths",
               candidates |-> gather_candidate_paths(arg)]
    /\ UNCHANGED <<arg, store, pc, scan, before, prev, existing, merged, rerun,
                   runs, cumulative, seen, item, kjson, kmeta>>

NextGather == AddTop \/ AddCalib \/ Gather

SpecGather == InitGather /\ [][NextGather]_vars

\* The values of the nine candidate fields of a record, in field order,
\* that are strings, not blank and not "N/A"
CandidateValues(meta) ==
    LET top == <<"file_path", "txrm_file_path", "file_hyperlink", "source_path">>
        sub == <<"MGainImg", "OffsetImg", "GainImg", "DefPixelImg",
                 "calib_folder_path">>
        calib == IF Has(meta.d, "calib_images") /\ IsDict(Get(meta.d, "calib_images"))
                 THEN Get(meta.d, "calib_images").d ELSE <<>>
        vals == [i \in 1..Len(top) |->
                    IF Has(meta.d, top[i]) THEN Get(meta.d, top[i]) ELSE Missing]
                \o [i \in 1..Len(sub) |->
                    IF Has(calib, sub[i]) THEN Get(calib, sub[i]) ELSE Missing]
    IN  SelectSeq(vals, LAMBDA v :
            /\ v.t = "str"
            /\ strip(v.s) # <<>>
            /\ lower(strip(v.s)) # <<"n", "/", "a">>)

\* C25 as stated: the candidates are the values of the candidate fields, in
\* field order, without the absent, non-string, blank and "N/A" ones.
C25_CandidatesAreValues ==
    res.fn = "gather_candidate_paths" =>
        LET kept == CandidateValues(arg)
        IN  res.candidates = [i \in 1..Len(kept) |-> kept[i].s]

\* C25 amended: the candidates are those values with the white space
\* around them removed.
C25_CandidatesAreTrimmedValues ==
    res.fn = "gather_candidate_paths" =>
        LET kept == CandidateValues(arg)
        IN  res.candidates = [i \in 1..Len(kept) |-> strip(kept[i].s)]

\* source_path " CD\ab" written before file_path "ab/cd": file_path comes
\* first, and source_path without its leading blank
C25_Witness ==
    /\ res.fn = "gather_candidate_paths"
    /\ arg = Obj(<<<<"source_path", PathCdAb>>, <<"file_path", PathAbCd>>>>)
    /\ res.candidates = <<PathAbCd.s, <<"C", "D", "\\", "a", "b">>>>

\* A calib_images field before a top-level one, a field that is no
\* candidate: only the candidates, top level first
C25_CalibWitness ==
    /\ res.fn = "gather_candidate_paths"
    /\ Has(arg.d, "calib_images")
    /\ Has(arg.d, "file_hyperlink")
    /\ Len(res.candidates) = 2
    /\ res.candidates[1] = Get(arg.d, "file_hyperlink").s

(***************************************************************************)
(* aggregate_json.py: order of the written store (C26), identity-less      *)
(* records of one file (C27), keys kept from run to run (C29)              *)
(***************************************************************************)
\* The keys of a sequence of records, each at its first occurrence
RECURSIVE FirstKeys(_, _, _)
FirstKeys(recs, i, acc) ==
    IF i > Len(recs) THEN acc
    ELSE FirstKeys(recs, i + 1,
                   IF \E n \in 1..Len(acc) : acc[n] = dedupe_key(recs[i]) THEN acc
                   ELSE Append(acc, dedupe_key(recs[i])))

\* C26: the written store lists its keys in the order in which they were
\* first inserted, those of the loaded store in stored order and then the
\* new ones in ingestion order; the record at the place of a key is the
\* last record of that key, so a replacing record takes the key's place.
C26_FirstInsertionOrder ==
    \A p \in Procs :
        pc[p] = "done" =>
            LET all == DictItems(prev[p]) \o Incoming(p)
                keys == FirstKeys(all, 1, <<>>)
            IN  /\ IsList(store)
                /\ [i \in 1..Len(store.l) |-> dedupe_key(store.l[i])] = keys
                /\ \A i \in 1..Len(store.l) :
                    \E n \in 1..Len(all) :
                        /\ all[n] = store.l[i]
                        /\ \A m \in (n + 1)..Len(all) :
                            dedupe_key(all[m]) # dedupe_key(store.l[i])

\* The stored id:x record is replaced by the record of the second input
\* file, which stays in first place, before the record of the first file
C26_Witness ==
    /\ pc[1] = "done"
    /\ before[1] = List(<<RecOldA1>>)
    /\ Len(scan[1]) = 2
    /\ Len(store.l) = 2
    /\ store.l[1] = WithPath(RecA2, PathNames[2])
    /\ dedupe_key(store.l[2]) \in KeySet(RecordsOf(<<scan[1][1]>>, 1))

\* An input element that carries none of the identity fields
IdentityLess(x) ==
    ~IsDict(x) \/ \A n \in 1..Len(PRIORITY_KEYS) : ~Has(x.d, PRIORITY_KEYS[n])

\* C27: two elements of one input file that differ in content and carry
\* none of id, uuid, source, source_path, filename are both in the store
\* the run writes, each as its own record.
C27_IdentityLessBothKept ==
    \A p \in Procs :
        pc[p] = "done" =>
            \A n \in 1..Len(scan[p]) :
                LET data == load_json_safely(scan[p][n].data)
                    raw == IF IsList(data) THEN data.l ELSE <<>>
                    recs == records_from_data(data, scan[p][n].path)
                IN  \A i, j \in 1..Len(raw) :
                        (i # j /\ raw[i] # raw[j]
                         /\ IdentityLess(raw[i]) /\ IdentityLess(raw[j]))
                        => /\ recs[i] \in ItemSet(store.l)
                           /\ recs[j] \in ItemSet(store.l)

(***************************************************************************)
(* Keys of records that differ in the value of their identity field (C28), *)
(* checked under SpecKey                                                   *)
(***************************************************************************)
\* C28: a record and the same record with another value in its first
\* usable identity field have different keys, under dedupe_key and under
\* record_key.
C28_KeySeparatesValues ==
    \A n \in 1..Len(PRIORITY_KEYS), v \in ProbeValues :
        LET k == PRIORITY_KEYS[n]
            other == Obj(DictSet(item.d, k, v))
        IN  /\ (/\ kjson # NoKey
                /\ Usable(item, k)
                /\ \A m \in 1..(n - 1) : ~Usable(item, PRIORITY_KEYS[m])
                /\ Usable(other, k)
                /\ v # Get(item.d, k))
               => dedupe_key(other) # kjson
            /\ (/\ kmeta # NoKey
                /\ NonEmpty(item, k)
                /\ \A m \in 1..(n - 1) : ~NonEmpty(item, PRIORITY_KEYS[m])
                /\ NonEmpty(other, k)
                /\ v # Get(item.d, k))
               => record_key(other) # kmeta

\* C29: a completed run that found an array of objects in the store file
\* writes a store that has every key the file had: keys are added and
\* records replaced, no key is lost, whatever the input files of the run.
C29_NoKeyLost ==
    \A p \in Procs :
        (/\ pc[p] = "done"
         /\ IsList(before[p])
         /\ \A i \in 1..Len(before[p].l) : IsDict(before[p].l[i]))
        => /\ IsList(store)
           /\ KeySet(before[p].l) \subseteq KeySet(store.l)

\* The second run of a sequence: the file the first run read is not among
\* its inputs, the key of that file's record is still in the store, and a
\* new key has been added
C29_Witness ==
    /\ runs = 2
    /\ pc[1] = "done"
    /\ IsList(before[1])
    /\ Len(before[1].l) > 0
    /\ \A i \in 1..Len(before[1].l) : IsDict(before[1].l[i])
    /\ \E k \in KeySet(before[1].l) :
        /\ k = "source_path:" \o PathNames[1]
        /\ k \notin KeySet(Incoming(1))
        /\ k \in KeySet(store.l)
    /\ Len(store.l) > Len(before[1].l)

(***************************************************************************)
(* What a roster folder that is a single name can match (C30), checked     *)
(* under SpecUsers                                                         *)
(***************************************************************************)
\* C30: a record gets an identity only through a path component equal to a
\* name of the roster, or through a roster folder that is a path (has a
\* "/") and lies within a candidate path; a folder that is a single name
\* does not match as a mere part of a longer component.
C30_SingleNameByComponentOnly ==
    (Found /\ res.email # <<>>) =>
        LET cands == gather_candidate_paths(arg.meta)
            users == res.users
        IN  \/ \E c \in 1..Len(cands) :
                \E n \in 1..Len(CompsOf(cands[c])) :
                    /\ Has(users.component_map, CompsOf(cands[c])[n])
                    /\ Get(users.component_map, CompsOf(cands[c])[n]) = res.email
            \/ \E e \in 1..Len(users.path_list) :
                /\ Contains(<<"/">>, users.path_list[e][1])
                /\ users.path_list[e][2] = res.email
                /\ \E c \in 1..Len(cands) :
                    Contains(users.path_list[e][1], normalize_path(cands[c]))

====
